---- MODULE Spec2Model ----
(***************************************************************************)
(* The payment pipeline of scripts/app.js: the three payment handlers      *)
(* (POST /payment/email-to-email, /payment/wallet-to-wallet and            *)
(* /payment/faucet), the chain submitter sendTransactionWithPrivateKey,    *)
(* the ledger recorder helpers and the detached settlement watcher.        *)
(*                                                                         *)
(* Node runs the handlers on one thread: the code between two awaits is    *)
(* one atomic step, and every await is a point where another request's     *)
(* handler or watcher may run.  Each action below is the resumption of one *)
(* await: it takes the answer of the call the handler is waiting for, runs *)
(* the synchronous code that follows, and stops at the next await.         *)
(***************************************************************************)
EXTENDS Integers, Sequences, FiniteSets, TLC

\* ------------------------------------------------------------------ bounds
\* Number of payment requests whose handlers may be in flight together.
NumReqs == 2
\* Number of wallet-creation requests.
NumCreates == 3
\* Number of receipt polls that fit in the watcher's timeout window.
MaxPolls == 2

\* ------------------------------------------------------- program constants
\* app.js:647 and app.js:794, the per-request ceiling of a payment (ETH).
PaymentCeiling == 1000
\* app.js:433, the ceiling of a faucet request (ETH).
FaucetCeiling == 100
\* The fee a transfer must be able to pay, gasLimit * gasPrice (app.js:919
\* and 928), in the model's unit of value.
GasFee == 1

Reqs == 1..NumReqs

\* ------------------------------------------------------------- input data
\* Addresses as strings.  "0xAa" and "0xaa" are two spellings (checksummed,
\* lower case) of one account, so are "0xBb" and "0xbb"; "xyz" is malformed.
Addresses == {"0xAa", "0xaa", "0xBb"}
Malformed == "xyz"
\* A body field that is absent (undefined, "", 0: falsy in JavaScript).
Missing == ""

toLowerCase(a) ==
  CASE a = "0xAa" -> "0xaa"
    [] a = "0xBb" -> "0xbb"
    [] OTHER -> a

\* web3.utils.isAddress: a local, synchronous check.
isAddress(a) == a \in {"0xAa", "0xaa", "0xBb", "0xbb"}

Accounts == {"0xaa", "0xbb"}

\* The identity directory of the backend (email_payment.php): the wallet it
\* returns for an email; Missing when it has no mapping.  "al2" is a second
\* email of the account of "alice", "dave" is mapped to a malformed address.
Emails == {"alice", "al2", "bob", "carol", "dave"}
Directory(e) ==
  CASE e = "alice" -> "0xAa"
    [] e = "al2"   -> "0xaa"
    [] e = "bob"   -> "0xBb"
    [] e = "dave"  -> Malformed
    [] OTHER       -> Missing

\* amountEth as it arrives in the body: absent, a non-numeric string, or a
\* decimal number.
Amount(k, v) == [k |-> k, v |-> v]
AmountInputs ==
  {Amount("missing", 0), Amount("text", 0)}
    \cup {Amount("num", v) : v \in {-1, 0, 1, PaymentCeiling + 1}}

\* !amountEth
Falsy(a) == a.k = "missing"
\* parseFloat(amountEth) is NaN for a non-numeric string, and every
\* comparison with NaN is false.
IsNaN(a) == a.k # "num"
\* parseFloat(amountEth) <= 0
NotPositive(a) == ~IsNaN(a) /\ a.v <= 0
\* parseFloat(amountEth) > c
Exceeds(a, c) == ~IsNaN(a) /\ a.v > c
\* Faulty variant: the balance check lets every amount through.
BalanceBelow_Never(bal, a) == FALSE

\* senderBalanceEth < amountFloat
BalanceBelow(bal, a) == ~IsNaN(a) /\ bal < a.v
\* web3.utils.toWei(amountEth.toString(), 'ether') throws on a string that
\* is not a number.
toWeiThrows(a) == IsNaN(a)

\* ------------------------------------------------ encryption of the keys
\* AES-256-GCM, symbolically.  ENCRYPTION_KEY is the symmetric key the
\* process was started with; OtherKey is any other symmetric key.
ENCRYPTION_KEY == "K"
OtherKey == "K2"
\* The values crypto.randomBytes(IV_LENGTH) can return.
IVs == {"iv1", "iv2"}
\* The ciphertext of text under (key, iv), and the authentication tag of a
\* ciphertext under (key, iv), of which a tag of n bytes is the first n
\* bytes.
Cipher(key, iv, text) == [key |-> key, iv |-> iv, text |-> text]
AuthTag(key, iv, content, bytes) ==
  [key |-> key, iv |-> iv, content |-> content, bytes |-> bytes]
\* The tag lengths setAuthTag accepts when createDecipheriv was given no
\* authTagLength.
TagLengths == {4, 8, 12, 13, 14, 15, 16}

\* encrypt(text), for the IV randomBytes returned: {iv, content, tag}, the
\* tag of 16 bytes.
encrypt(text, iv) ==
  LET content == Cipher(ENCRYPTION_KEY, iv, text)
  IN [iv |-> iv, content |-> content,
      tag |-> AuthTag(ENCRYPTION_KEY, iv, content, 16)]

DecryptError == "decrypt error"
\* decrypt(encrypted) in a process whose symmetric key is key: setAuthTag
\* throws on a tag of invalid length, final() throws when the tag is not
\* the tag of the ciphertext under (key, iv) at the tag's own length, and
\* otherwise the plaintext is returned.
decrypt(encrypted, key) ==
  IF encrypted.tag.bytes \notin TagLengths THEN DecryptError
  ELSE IF encrypted.tag # AuthTag(key, encrypted.iv, encrypted.content,
                                  encrypted.tag.bytes)
    THEN DecryptError
  ELSE IF encrypted.content.key = key /\ encrypted.content.iv = encrypted.iv
    THEN encrypted.content.text
  ELSE DecryptError

\* The signing key of an account and the account a signing key signs for
\* (web3.eth.accounts.signTransaction derives the sender from the key).
PrivateKeyOf(s) == "key " \o toLowerCase(s)
Signer(k) ==
  CASE k = "key 0xaa" -> "0xaa"
    [] k = "key 0xbb" -> "0xbb"
    [] OTHER -> "nobody"

\* The key store (wallet-store.json) holds a signing key for account A,
\* stored under its checksummed spelling, and none for account B.
WalletStore == {"0xAa"}
\* The record of the store for the address s.
StoredWallet(s) ==
  [address |-> s, encryptedKey |-> encrypt(PrivateKeyOf(s), "iv1")]

NotFound == "Private key not found"
\* Faulty variant: the addresses are compared as they are spelled.
getPrivateKeyForWallet_CaseSensitive(walletAddress) ==
  LET found == {s \in WalletStore : StoredWallet(s).address = walletAddress}
  IN IF found = {} THEN NotFound
     ELSE decrypt(StoredWallet(CHOOSE s \in found : TRUE).encryptedKey,
                  ENCRYPTION_KEY)

\* getPrivateKeyForWallet: the linear scan of the store, comparing lower-cased
\* addresses; the key of the first record that matches is decrypted and
\* returned, and it throws when no record matches.
getPrivateKeyForWallet(walletAddress) ==
  LET found == {s \in WalletStore :
                  toLowerCase(StoredWallet(s).address) = toLowerCase(walletAddress)}
  IN IF found = {} THEN NotFound
     ELSE decrypt(StoredWallet(CHOOSE s \in found : TRUE).encryptedKey,
                  ENCRYPTION_KEY)

HasPrivateKey(w) == getPrivateKeyForWallet(w) # NotFound

\* --------------------------------------------------------------- the state
VARIABLES
  req,      \* per request: the handler's locals, its position, and history
  records,  \* the backend's transaction records, by transaction_id
  txCount,  \* chain: the transaction count (next nonce) of each account
  balance,  \* chain: the balance of each account
  ledger,   \* chain: the transactions it accepted, in order; index = hash
  funded,   \* funded-wallets.json: the addresses marked funded
  walletStore,  \* wallet-store.json: the record under each key
  wreq,     \* per POST /wallet/create request: locals, position, response
  box,      \* one use of encrypt and decrypt: the text, the record, the result
  upd,      \* one record of the backend and the status updates posted for it
  server,   \* blockchain-server.js: the Ganache handle, its children, startup
  registry, \* EmailRegistry.sol: the contract's storage and the last call
  manager   \* PaymentManager (hardened): guard, owner, balances, the call

vars ==
  <<req, records, txCount, balance, ledger, funded, walletStore, wreq, box, upd,
    server, registry, manager>>
\* The state of the payment pipeline, and the state of the key store.
payVars == <<req, records, txCount, balance, ledger, funded>>
\* The state outside app.js: the blockchain server and the contracts.
deployVars == <<server, registry, manager>>
keyVars == <<walletStore, wreq, box, upd, deployVars>>
storeVars == <<walletStore, wreq>>

Roles == {"sender", "receiver", "faucet"}
NoRecord == [status |-> "none", txHash |-> 0, error |-> "none"]

Idle ==
  [pc |-> "idle", kind |-> "none", from |-> Missing, to |-> Missing,
   amt |-> Amount("missing", 0), fromWallet |-> Missing, toWallet |-> Missing,
   dualRecords |-> <<>>, nonce |-> -1, tx |-> 0, polls |-> 0,
   final |-> "none", error |-> "none", left |-> <<>>,
   \* the response sent, 0 while none was
   resp |-> 0, body |-> "none",
   \* history
   backendCalls |-> 0, chainCalls |-> 0, creates |-> 0, sends |-> 0,
   submitted |-> {}, terminal |-> {}, watcher |-> FALSE,
   createFailed |-> FALSE]

\* The owner ids wallet-creation requests name, and the id under which the
\* store holds the key of account A when the server starts.
UserIds == {"u1", "u2"}
StoreKeys == UserIds \cup {"u0"}
\* The value standing for "no record under this key".
NoKey ==
  [iv |-> "none", content |-> Cipher("none", "none", "none"),
   tag |-> AuthTag("none", "none", Cipher("none", "none", "none"), 0)]
NoWallet == [address |-> "none", encryptedKey |-> NoKey]
NoBody == [error |-> "none"]
WReqs == 1..NumCreates
WIdle ==
  [pc |-> "idle", userId |-> Missing, address |-> "none",
   isFundingAvailable |-> FALSE, resp |-> 0, success |-> FALSE,
   mapping |-> FALSE, body |-> NoBody,
   \* history: saveWalletStore wrote the file
   saved |-> FALSE]

NoBox ==
  [pc |-> "idle", text |-> "none", encrypted |-> NoKey, altered |-> FALSE,
   key |-> "none", out |-> "none"]

NoCall == [txHash |-> 0, tx_hash |-> 0, status |-> "none", error_message |-> "none"]
NoUpdate ==
  [pc |-> "idle", record |-> NoRecord, first |-> NoCall, second |-> NoCall,
   after1 |-> NoRecord, results |-> <<>>,
   \* history: whether each call reached the backend
   reached |-> <<>>]

\* The Ganache children the server spawns, by the order of their spawn.
MaxSpawns == 3
Pids == 1..MaxSpawns
\* let ganacheProcess = null; ganacheInfo.started = false; no custodian
\* wallets; the listen callback has not run.
NoServer ==
  [ganacheProcess |-> 0, started |-> FALSE,
   \* each child: "none", "running", "exiting" (ended or signalled, its
   \* 'close' event not delivered yet), "closed"
   procs |-> [p \in Pids |-> "none"],
   \* the children whose 'Listening on' output was delivered
   heard |-> {},
   \* the stdout handlers waiting in parseGanacheAccountsAndKeys
   parsing |-> {},
   custodianWallets |-> FALSE,
   \* the listen callback: "init", "awaitStart", "deployed", "failed"
   boot |-> "init",
   \* the promise the listen callback awaits: "none", "pending", "resolved"
   promise |-> "none",
   \* /payment/send, /payment/batch and /payment/withdraw are registered
   routes |-> FALSE]

\* The email hashes and the wallets (callers) of the registry; bytes32(0)
\* and address(0).
Hashes == {"h1", "h2"}
ZeroHash == "0x00"
Wallets == {"w1", "w2", "w3"}
ZeroAddress == "0x0"
\* The block timestamps of the calls.
MaxTime == 3
\* The calls of registerEmail made.
MaxCalls == 4
NoRegisterCall ==
  [sender |-> ZeroAddress, emailHash |-> ZeroHash, wallet |-> ZeroAddress,
   \* emailToWallet[emailHash] when the call was made
   currentWallet |-> ZeroAddress, reverted |-> FALSE, n |-> 0]
\* The storage of a freshly deployed EmailRegistry: every mapping is zero.
EmptyRegistry ==
  [emailToWallet |-> [e \in Hashes |-> ZeroAddress],
   walletToEmail |-> [w \in Wallets |-> ZeroHash],
   registrationTimestamps |-> [e \in Hashes |-> 0],
   \* block.timestamp of the latest block
   timestamp |-> 1,
   call |-> NoRegisterCall]

\* The reentrancy guard's two values.
NOT_ENTERED == 1
ENTERED == 2
\* address(this), and the accounts that call the contract and are paid by
\* it: the deployer (first owner) and two others, any of which may be a
\* contract with code of its own.
This == "this"
Deployer0 == "owner"
Holders == {Deployer0, "a", "b", This}
\* Values in wei, and the transactions sent to the contract.
MaxValue == 2
MaxAmount == 1
MaxTxs == 2
NoManagerCall ==
  [fn |-> "none", sender |-> ZeroAddress, value |-> 0,
   toWallets |-> <<>>, amounts |-> <<>>,
   \* the locals of the function
   i |-> 0, remaining |-> 0, totalSent |-> 0,
   \* the external call being made: recipient and value
   to |-> ZeroAddress, amt |-> 0,
   \* "none", "call" (a payment's external call is being made), "refund"
   \* (the refund's is), "ok" (the transaction succeeded), "reverted"
   pc |-> "none",
   \* what became of a call the recipient made back into the contract
   nested |-> "none", nestedFn |-> "none",
   \* the guard, the owner and the balances before the transaction
   pre |-> [status |-> NOT_ENTERED, owner |-> Deployer0,
            bal |-> [a \in Holders |-> 0]]]
\* The contract after its constructor ran, with the balances of the
\* accounts at that time.
Deployed ==
  [status |-> NOT_ENTERED, owner |-> Deployer0,
   bal |-> [a \in Holders |->
              IF a = Deployer0 THEN 2 ELSE IF a = "b" THEN 1 ELSE 0],
   call |-> NoManagerCall, txs |-> 0]

Init ==
  /\ server = NoServer
  /\ registry = EmptyRegistry
  /\ manager = Deployed
  /\ box = NoBox
  /\ upd = NoUpdate
  /\ walletStore = [u \in StoreKeys |->
                      IF u = "u0" THEN StoredWallet(CHOOSE a \in WalletStore : TRUE)
                      ELSE NoWallet]
  /\ wreq = [c \in WReqs |-> WIdle]
  /\ req = [r \in Reqs |-> Idle]
  /\ records = [r \in Reqs |-> [o \in Roles |-> NoRecord]]
  /\ txCount = [a \in Accounts |-> 0]
  /\ balance = [a \in Accounts |-> IF a = "0xaa" THEN 4 ELSE 0]
  /\ ledger = <<>>
  /\ funded = {}


\* ----------------------------------------------------------------- helpers
\* The locals of a handler that has returned are gone: what stays of a
\* request is its kind and amount, the records list and transaction hash the
\* watcher's closure holds, the response, and the history.
Returned(q) ==
  [q EXCEPT !.from = Missing, !.to = Missing, !.fromWallet = Missing,
            !.toWallet = Missing, !.nonce = -1, !.left = <<>>]

\* res.status(code).json(...) followed by return, or the handler's catch
\* block (code 500): the handler ends.
Reply(q, code, body) ==
  [Returned(q) EXCEPT !.pc = "done", !.resp = code, !.body = body]

\* Requests are numbered in their order of arrival.
Arrives(r) == req[r].pc = "idle" /\ (IF r = 1 THEN TRUE ELSE req[r - 1].pc # "idle")

CallBackend(q) == [q EXCEPT !.backendCalls = @ + 1]
CallChain(q) == [q EXCEPT !.chainCalls = @ + 1]

\* The record the backend stores for a create_full call: the payload's
\* status is 'pending'.
PendingRecord == [status |-> "pending", txHash |-> 0, error |-> "none"]

\* The records createDualTransactionRecords (or the faucet) created.
RecordSet(q) == {q.dualRecords[i] : i \in DOMAIN q.dualRecords}

\* ------------------------------------------- POST /payment/email-to-email
\* Faulty variant: the ceiling check is missing.
EmailValidation_NoCeiling(f, t, a) ==
  IF f = Missing \/ t = Missing \/ Falsy(a) THEN "required"
  ELSE IF f = t THEN "self"
  ELSE IF NotPositive(a) THEN "amount"
  ELSE "ok"

\* The input validation of the email handler, in the order of the code.
EmailValidation(f, t, a) ==
  IF f = Missing \/ t = Missing \/ Falsy(a) THEN "required"
  ELSE IF f = t THEN "self"
  ELSE IF NotPositive(a) THEN "amount"
  ELSE IF Exceeds(a, PaymentCeiling) THEN "ceiling"
  ELSE "ok"

\* The checks on the two resolved wallets.
ResolvedValidation(fw, tw) ==
  IF ~isAddress(fw) \/ ~isAddress(tw) THEN "address"
  ELSE IF toLowerCase(fw) = toLowerCase(tw) THEN "same"
  ELSE "ok"

EmailStart(r) ==
  /\ Arrives(r)
  /\ \E f \in Emails \cup {Missing}, t \in Emails \cup {Missing}, a \in AmountInputs :
       LET q == [req[r] EXCEPT !.kind = "email", !.from = f, !.to = t, !.amt = a]
           v == EmailValidation(f, t, a)
       IN req' = [req EXCEPT ![r] =
                    IF v # "ok" THEN Reply(q, 400, v)
                    ELSE CallBackend([q EXCEPT !.pc = "lookupFrom"])]
  /\ UNCHANGED <<records, txCount, balance, ledger, funded>>
  /\ UNCHANGED keyVars

\* getWalletByEmail(fromEmail) returns or throws; any error is answered 404.
EmailLookupFrom(r) ==
  /\ req[r].pc = "lookupFrom"
  /\ \E up \in BOOLEAN :
       LET q == req[r]
           w == Directory(q.from)
       IN req' = [req EXCEPT ![r] =
                    IF ~up \/ w = Missing THEN Reply(q, 404, "not found")
                    ELSE CallBackend([q EXCEPT !.fromWallet = w, !.pc = "lookupTo"])]
  /\ UNCHANGED <<records, txCount, balance, ledger, funded>>
  /\ UNCHANGED keyVars

\* Faulty variant: a receiver without a mapping is not noticed and the
\* handler goes on with the address it got.
EmailLookupTo_Unchecked(r) ==
  /\ req[r].pc = "lookupTo"
  /\ req' = [req EXCEPT ![r] =
               CallChain([@ EXCEPT !.toWallet = Directory(req[r].to),
                                   !.pc = "getBalance"])]
  /\ UNCHANGED <<records, txCount, balance, ledger, funded>>
  /\ UNCHANGED keyVars

\* getWalletByEmail(toEmail) returns or throws; then the resolved wallets
\* are validated and the sender's balance is asked of the chain.
EmailLookupTo(r) ==
  /\ req[r].pc = "lookupTo"
  /\ \E up \in BOOLEAN :
       LET q == req[r]
           w == Directory(q.to)
           v == ResolvedValidation(q.fromWallet, w)
       IN req' = [req EXCEPT ![r] =
                    IF ~up \/ w = Missing THEN Reply(q, 404, "not found")
                    ELSE IF v # "ok" THEN Reply([q EXCEPT !.toWallet = w], 400, v)
                    ELSE CallChain([q EXCEPT !.toWallet = w, !.pc = "getBalance"])]
  /\ UNCHANGED <<records, txCount, balance, ledger, funded>>
  /\ UNCHANGED keyVars

\* ----------------------------------------- POST /payment/wallet-to-wallet
WalletValidation(f, t, a) ==
  IF f = Missing \/ t = Missing \/ Falsy(a) THEN "required"
  ELSE IF ~isAddress(f) \/ ~isAddress(t) THEN "address"
  ELSE IF toLowerCase(f) = toLowerCase(t) THEN "same"
  ELSE IF NotPositive(a) THEN "amount"
  ELSE IF Exceeds(a, PaymentCeiling) THEN "ceiling"
  ELSE "ok"

WalletStart(r) ==
  /\ Arrives(r)
  /\ \E f \in Addresses \cup {Malformed, Missing},
        t \in Addresses \cup {Malformed, Missing}, a \in AmountInputs :
       LET q == [req[r] EXCEPT !.kind = "wallet", !.from = f, !.to = t, !.amt = a]
           v == WalletValidation(f, t, a)
       IN req' = [req EXCEPT ![r] =
                    IF v # "ok" THEN Reply(q, 400, v)
                    ELSE CallChain([q EXCEPT !.fromWallet = f, !.toWallet = t,
                                             !.pc = "getBalance"])]
  /\ UNCHANGED <<records, txCount, balance, ledger, funded>>
  /\ UNCHANGED keyVars

\* ------------------------------- the balance check of both payment flows
\* Faulty variant: the handler goes from the balance check straight to the chain
\* submitter, without creating the records first.
GetBalance_NoRecords(r) ==
  /\ req[r].pc = "getBalance"
  /\ \E up \in BOOLEAN :
       LET q == req[r]
           bal == balance[toLowerCase(q.fromWallet)]
       IN req' = [req EXCEPT ![r] =
                    IF ~up THEN Reply(q, 500, "rpc error")
                    ELSE IF BalanceBelow(bal, q.amt)
                      THEN Reply(q, 400, "Insufficient balance")
                    ELSE CallChain([q EXCEPT !.pc = "getTransactionCount"])]
  /\ UNCHANGED <<records, txCount, balance, ledger, funded>>
  /\ UNCHANGED keyVars

\* web3.eth.getBalance(fromWallet) returns or throws; a balance below the
\* amount is answered 400, otherwise createDualTransactionRecords starts
\* and posts the sender's record.
GetBalance(r) ==
  /\ req[r].pc = "getBalance"
  /\ \E up \in BOOLEAN :
       LET q == req[r]
           bal == balance[toLowerCase(q.fromWallet)]
       IN req' = [req EXCEPT ![r] =
                    IF ~up THEN Reply(q, 500, "rpc error")
                    ELSE IF BalanceBelow(bal, q.amt)
                      THEN Reply(q, 400, "Insufficient balance")
                    ELSE CallBackend([q EXCEPT !.pc = "createSender"])]
  /\ UNCHANGED <<records, txCount, balance, ledger, funded>>
  /\ UNCHANGED keyVars


\* -------------------------------------------- createDualTransactionRecords
\* createTransactionPHP never throws: a failed call answers {success: false}
\* and the record is left out of the returned list.
\* Faulty variant: a failed creation of the sender's record is thrown to the
\* handler, which answers 500 without attempting the receiver's record.
CreateSender_Throws(r) ==
  /\ req[r].pc = "createSender"
  /\ \E up \in BOOLEAN :
       /\ req' = [req EXCEPT ![r] =
            IF up
            THEN CallBackend([@ EXCEPT !.pc = "createReceiver",
                                       !.creates = @ + 1,
                                       !.dualRecords = Append(@, "sender")])
            ELSE Reply([@ EXCEPT !.creates = @ + 1, !.createFailed = TRUE],
                       500, "Failed to create transaction records")]
       /\ records' = IF up THEN [records EXCEPT ![r]["sender"] = PendingRecord]
                     ELSE records
  /\ UNCHANGED <<txCount, balance, ledger, funded>>
  /\ UNCHANGED keyVars

CreateSender(r) ==
  /\ req[r].pc = "createSender"
  /\ \E up \in BOOLEAN :
       /\ req' = [req EXCEPT ![r] =
            CallBackend([@ EXCEPT !.pc = "createReceiver",
                                  !.creates = @ + 1,
                                  !.createFailed = @ \/ ~up,
                                  !.dualRecords = IF up THEN Append(@, "sender") ELSE @])]
       /\ records' = IF up THEN [records EXCEPT ![r]["sender"] = PendingRecord]
                     ELSE records
  /\ UNCHANGED <<txCount, balance, ledger, funded>>
  /\ UNCHANGED keyVars

\* Faulty variant: a payment equal in sender, receiver and amount to one
\* already on the chain is answered with the earlier transaction's hash and
\* is not broadcast again.
AfterRecords_Deduplicated(q) ==
  LET same == {h \in DOMAIN ledger :
                 /\ ledger[h].from = toLowerCase(q.fromWallet)
                 /\ ledger[h].to = toLowerCase(q.toWallet)
                 /\ ledger[h].value = q.amt.v}
  IN IF same # {}
     THEN [Returned(q) EXCEPT !.pc = "done", !.resp = 200, !.body = "submitted",
                              !.tx = CHOOSE h \in same : TRUE]
     ELSE IF Len(q.dualRecords) = 0
       THEN Reply(q, 500, "Failed to create transaction records")
     ELSE IF toWeiThrows(q.amt) THEN Reply(q, 500, "invalid number")
     ELSE IF ~HasPrivateKey(q.fromWallet) THEN Reply(q, 500, NotFound)
     ELSE CallChain([q EXCEPT !.pc = "getTransactionCount"])

\* What the payment handlers do with the list createDualTransactionRecords
\* returned, up to the first await of sendTransactionWithPrivateKey: the
\* handler throws (answered 500) when the list is empty, when toWei throws
\* or when getPrivateKeyForWallet throws; otherwise it asks the chain for the
\* sender's transaction count.
AfterRecords(q) ==
  IF Len(q.dualRecords) = 0 THEN Reply(q, 500, "Failed to create transaction records")
  ELSE IF toWeiThrows(q.amt) THEN Reply(q, 500, "invalid number")
  ELSE IF ~HasPrivateKey(q.fromWallet) THEN Reply(q, 500, NotFound)
  ELSE CallChain([q EXCEPT !.pc = "getTransactionCount"])

CreateReceiver(r) ==
  /\ req[r].pc = "createReceiver"
  /\ \E up \in BOOLEAN :
       /\ req' = [req EXCEPT ![r] =
            AfterRecords([@ EXCEPT !.creates = @ + 1,
                                   !.createFailed = @ \/ ~up,
                                   !.dualRecords = IF up THEN Append(@, "receiver") ELSE @])]
       /\ records' = IF up THEN [records EXCEPT ![r]["receiver"] = PendingRecord]
                     ELSE records
  /\ UNCHANGED <<txCount, balance, ledger, funded>>
  /\ UNCHANGED keyVars

\* ------------------------------------------- sendTransactionWithPrivateKey
\* web3.eth.getTransactionCount(fromWallet) returns the account's count, read
\* at this moment, or throws.
GetTransactionCount(r) ==
  /\ req[r].pc = "getTransactionCount"
  /\ \E up \in BOOLEAN :
       req' = [req EXCEPT ![r] =
         IF ~up THEN Reply(@, 500, "rpc error")
         ELSE CallChain([@ EXCEPT !.nonce = txCount[toLowerCase(req[r].fromWallet)],
                                  !.pc = "getGasPrice"])]
  /\ UNCHANGED <<records, txCount, balance, ledger, funded>>
  /\ UNCHANGED keyVars

\* web3.eth.getGasPrice() returns or throws; the transaction object is built
\* with the nonce read before, and signTransaction is awaited.
GetGasPrice(r) ==
  /\ req[r].pc = "getGasPrice"
  /\ \E up \in BOOLEAN :
       req' = [req EXCEPT ![r] =
         IF ~up THEN Reply(@, 500, "rpc error")
         ELSE [@ EXCEPT !.pc = "signTransaction"]]
  /\ UNCHANGED <<records, txCount, balance, ledger, funded>>
  /\ UNCHANGED keyVars

\* signTransaction returns; the raw transaction is handed to
\* web3.eth.sendSignedTransaction: the broadcast.
SignTransaction(r) ==
  /\ req[r].pc = "signTransaction"
  /\ req' = [req EXCEPT ![r] =
       CallChain([@ EXCEPT !.pc = "sendSignedTransaction",
                           !.sends = @ + 1])]
  /\ UNCHANGED <<records, txCount, balance, ledger, funded>>
  /\ UNCHANGED keyVars

\* The chain takes a signed transfer when its nonce is the sender's current
\* transaction count and the sender can pay the value and the fee.
ChainAccepts(from, nonce, value) ==
  /\ nonce = txCount[from]
  /\ balance[from] >= value + GasFee

\* Faulty variant: the handler waits for the watcher to finish before it
\* answers, so no response is sent when the watcher starts.
StartWatcher_Awaited(q) ==
  CallChain([Returned(q) EXCEPT !.watcher = TRUE, !.polls = 0, !.pc = "poll"])

\* What follows the last 'submitted' update, without an await in between:
\* the detached watcher starts and issues its first receipt poll, then the
\* handler sends the success response.
StartWatcher(q) ==
  CallChain([Returned(q) EXCEPT !.watcher = TRUE, !.polls = 0, !.pc = "poll",
                                !.resp = 200, !.body = "submitted"])

\* Faulty variant: the 'submitted' updates are left out and the watcher is
\* started as soon as the hash is known.
AfterBroadcast_NoUpdate(q, hash) == StartWatcher([q EXCEPT !.tx = hash])

\* What both payment handlers do once they hold the transaction hash: the
\* first 'submitted' update is posted.
AfterBroadcast(q, hash) ==
  CallBackend([q EXCEPT !.tx = hash, !.left = q.dualRecords,
                        !.pc = "updateSubmitted"])

\* Faulty variant: the failed broadcast is sent again.
BroadcastFailed_Retry(q) == CallChain([q EXCEPT !.sends = @ + 1])

\* Faulty variant: the error of the broadcast is swallowed and success is reported.
BroadcastFailed_Swallowed(q) ==
  [Returned(q) EXCEPT !.pc = "done", !.resp = 200, !.body = "submitted"]

\* sendSignedTransaction (or the faucet's contract send) threw: the error is
\* logged and rethrown, and the handler's catch block answers 500.
BroadcastFailed(q) == Reply(q, 500, "submission failed")

\* The chain's answer to the broadcast.  A rejection (or an RPC error) makes
\* sendSignedTransaction throw; the error is logged, rethrown and answered
\* 500 by the handler.  An accepted transaction is mined at once (Ganache's
\* default) with the execution status the chain decides.
SendSignedTransaction(r) ==
  /\ req[r].pc = "sendSignedTransaction"
  /\ LET q == req[r]
         from == Signer(getPrivateKeyForWallet(q.fromWallet))
         to == toLowerCase(q.toWallet)
     IN \E up \in BOOLEAN :
          IF up /\ ChainAccepts(from, q.nonce, q.amt.v)
          THEN \E ok \in BOOLEAN :
                 /\ ledger' = Append(ledger,
                      [from |-> from, to |-> to, nonce |-> q.nonce,
                       value |-> q.amt.v, ok |-> ok, by |-> r])
                 /\ txCount' = [txCount EXCEPT ![from] = @ + 1]
                 /\ balance' = IF ok
                      THEN [balance EXCEPT ![from] = @ - q.amt.v - GasFee,
                                           ![to] = @ + q.amt.v]
                      ELSE [balance EXCEPT ![from] = @ - GasFee]
                 /\ req' = [req EXCEPT ![r] = AfterBroadcast(q, Len(ledger'))]
          ELSE /\ req' = [req EXCEPT ![r] = BroadcastFailed(q)]
               /\ UNCHANGED <<txCount, balance, ledger>>
  /\ UNCHANGED <<records, funded>>
  /\ UNCHANGED keyVars


\* ----------------------------------------------------- POST /payment/faucet
\* The deployer account the faucet pays from (accounts[0] of the node).
Deployer == "deployer"

\* The addresses a faucet request may name: the two spellings of account A.
FaucetTargets == {"0xAa", "0xaa"}

\* Faulty variant: every wallet is eligible.
isWalletEligibleForBonus_Always(w) == TRUE

\* isWalletEligibleForBonus: no entry under this very key, or funded false.
isWalletEligibleForBonus(w) == w \notin funded

\* GET /wallet/bonus-eligible/:walletAddress, a handler without an await:
\* 400 for a malformed address, otherwise what isWalletEligibleForBonus says
\* of the address as it is spelled in the URL.
BonusEligible(w) ==
  IF ~isAddress(w) THEN [code |-> 400, eligible |-> FALSE]
  ELSE [code |-> 200, eligible |-> isWalletEligibleForBonus(w)]

FaucetValidation(t, a) ==
  IF t = Missing \/ Falsy(a) THEN "required"
  ELSE IF ~isAddress(t) THEN "address"
  ELSE IF NotPositive(a) THEN "amount"
  ELSE IF Exceeds(a, FaucetCeiling) THEN "ceiling"
  ELSE "ok"

\* Validation, the eligibility check (429), and the post of the faucet record.
FaucetStart(r) ==
  /\ Arrives(r)
  /\ \E t \in FaucetTargets \cup {Malformed, Missing}, a \in AmountInputs :
       LET q == [req[r] EXCEPT !.kind = "faucet", !.from = Deployer, !.to = t,
                               !.amt = a]
           v == FaucetValidation(t, a)
       IN req' = [req EXCEPT ![r] =
                    IF v # "ok" THEN Reply(q, 400, v)
                    ELSE IF ~isWalletEligibleForBonus(t)
                      THEN Reply(q, 429, "already funded")
                    ELSE CallBackend([q EXCEPT !.fromWallet = Deployer,
                                               !.toWallet = t,
                                               !.pc = "faucetCreate"])]
  /\ UNCHANGED <<records, txCount, balance, ledger, funded>>
  /\ UNCHANGED keyVars

\* What the faucet handler does with the answer of createTransactionPHP: it
\* throws when the record was not created; otherwise toWei, and the contract
\* call sendPaymentToWallet(toWallet).send(...) is issued.
AfterFaucetRecord(q, up) ==
  IF ~up THEN Reply(q, 500, "Failed to create transaction record")
  ELSE IF toWeiThrows(q.amt) THEN Reply(q, 500, "invalid number")
  ELSE CallChain([q EXCEPT !.pc = "faucetSend", !.sends = @ + 1])

FaucetCreate(r) ==
  /\ req[r].pc = "faucetCreate"
  /\ \E up \in BOOLEAN :
       /\ req' = [req EXCEPT ![r] =
            AfterFaucetRecord([@ EXCEPT !.creates = @ + 1,
                                        !.createFailed = @ \/ ~up,
                                        !.dualRecords = IF up THEN <<"faucet">> ELSE @],
                              up)]
       /\ records' = IF up THEN [records EXCEPT ![r]["faucet"] = PendingRecord]
                     ELSE records
  /\ UNCHANGED <<txCount, balance, ledger, funded>>
  /\ UNCHANGED keyVars

\* Faulty variant: the wallet is marked funded before the contract send.
FaucetSend_MarkedFirst(r) ==
  /\ req[r].pc = "faucetSend"
  /\ LET q == req[r]
         to == toLowerCase(q.toWallet)
     IN \E up \in BOOLEAN :
          /\ funded' = funded \cup {q.toWallet}
          /\ IF up
             THEN \E ok \in BOOLEAN :
                    /\ ledger' = Append(ledger,
                         [from |-> Deployer, to |-> to, nonce |-> -1,
                          value |-> q.amt.v, ok |-> ok, by |-> r])
                    /\ balance' = IF ok THEN [balance EXCEPT ![to] = @ + q.amt.v]
                                  ELSE balance
                    /\ req' = [req EXCEPT ![r] = AfterBroadcast(q, Len(ledger'))]
             ELSE /\ req' = [req EXCEPT ![r] = BroadcastFailed(q)]
                  /\ UNCHANGED <<balance, ledger>>
  /\ UNCHANGED <<records, txCount>>
  /\ UNCHANGED keyVars

\* The contract send returns the receipt of the mined transaction, or throws
\* (answered 500).  On return the wallet is marked funded and the
\* 'submitted' update is posted.  The node assigns the deployer's nonce.
FaucetSend(r) ==
  /\ req[r].pc = "faucetSend"
  /\ LET q == req[r]
         to == toLowerCase(q.toWallet)
     IN \E up \in BOOLEAN :
          IF up
          THEN \E ok \in BOOLEAN :
                 /\ ledger' = Append(ledger,
                      [from |-> Deployer, to |-> to, nonce |-> -1,
                       value |-> q.amt.v, ok |-> ok, by |-> r])
                 /\ balance' = IF ok THEN [balance EXCEPT ![to] = @ + q.amt.v]
                               ELSE balance
                 /\ funded' = funded \cup {q.toWallet}
                 /\ req' = [req EXCEPT ![r] = AfterBroadcast(q, Len(ledger'))]
          ELSE /\ req' = [req EXCEPT ![r] = BroadcastFailed(q)]
               /\ UNCHANGED <<balance, ledger, funded>>
  /\ UNCHANGED <<records, txCount>>
  /\ UNCHANGED keyVars

\* ------------------------------------------------------- status updates
\* The record the backend holds after a webhook_update it answered.
Updated(rec, hash, status, error) ==
  [rec EXCEPT !.status = status, !.txHash = hash, !.error = error]

\* updateDualTransactionStatus(dualRecords, txHash, 'submitted'), one awaited
\* updateTransactionStatusPHP per record of the list (the faucet's single
\* update is the same call).  updateTransactionStatusPHP never throws and
\* its callers ignore what it returns, so the answer of the backend decides
\* nothing in the handler: the backend is taken to apply the update.
UpdateSubmitted(r) ==
  /\ req[r].pc = "updateSubmitted"
  /\ req[r].left # <<>>
  /\ LET q == req[r]
         o == Head(q.left)
         q1 == [q EXCEPT !.left = Tail(@), !.submitted = @ \cup {o}]
     IN /\ records' = [records EXCEPT ![r][o] = Updated(@, q.tx, "submitted", "none")]
        /\ req' = [req EXCEPT ![r] =
                     IF q1.left = <<>> THEN StartWatcher(q1) ELSE CallBackend(q1)]
  /\ UNCHANGED <<txCount, balance, ledger, funded>>
  /\ UNCHANGED keyVars


\* ------------------------------------------------- the settlement watcher
TimeoutMessage == "Timeout waiting for transaction receipt"
RevertMessage == "Transaction failed on blockchain"

\* Faulty variant: the catch block records the revert message for any error.
WatcherCatch_SameMessage(q, message) ==
  CallBackend([q EXCEPT !.final = "failed", !.error = RevertMessage,
                        !.left = q.dualRecords, !.pc = "updateTerminal"])

\* Faulty variant: the catch block only logs the error.
WatcherCatch_Silent(q, message) ==
  [q EXCEPT !.final = "failed", !.error = message, !.pc = "settled"]

\* The watcher's catch block: the records are updated to 'failed' with the
\* error's message.
WatcherCatch(q, message) ==
  CallBackend([q EXCEPT !.final = "failed", !.error = message,
                        !.left = q.dualRecords, !.pc = "updateTerminal"])

\* Faulty variant: any receipt counts as success.
ReceiptStatus_Always(ok) == "completed"

\* receipt && receipt.status ? 'completed' : 'failed'
ReceiptStatus(ok) == IF ok THEN "completed" ELSE "failed"

\* One round of waitForReceipt: getTransactionReceipt answers with the
\* receipt, with null, or throws.  A receipt ends the loop and getBlock is
\* asked; after null the loop sleeps pollInterval and polls again unless the
\* timeout has elapsed, in which case it throws; an error of the call or of
\* the loop lands in the watcher's catch block.
Poll(r) ==
  /\ req[r].pc = "poll"
  /\ LET q == req[r] IN
     \E answer \in {"receipt", "null", "error"} :
       req' = [req EXCEPT ![r] =
         CASE answer = "receipt" ->
                CallChain([q EXCEPT !.final = ReceiptStatus(ledger[q.tx].ok),
                                    !.error = IF ledger[q.tx].ok THEN "none"
                                              ELSE RevertMessage,
                                    !.pc = "getBlock"])
           [] answer = "null" ->
                IF q.polls + 1 < MaxPolls
                THEN CallChain([q EXCEPT !.polls = @ + 1])
                ELSE WatcherCatch([q EXCEPT !.polls = @ + 1], TimeoutMessage)
           [] OTHER -> WatcherCatch(q, "rpc error")]
  /\ UNCHANGED <<records, txCount, balance, ledger, funded>>
  /\ UNCHANGED keyVars

\* web3.eth.getBlock(receipt.blockNumber) returns, and the final update is
\* posted with the status read from the receipt; or it throws into the catch
\* block.
GetBlock(r) ==
  /\ req[r].pc = "getBlock"
  /\ \E up \in BOOLEAN :
       req' = [req EXCEPT ![r] =
         IF up THEN CallBackend([@ EXCEPT !.left = req[r].dualRecords,
                                          !.pc = "updateTerminal"])
         ELSE WatcherCatch(@, "rpc error")]
  /\ UNCHANGED <<records, txCount, balance, ledger, funded>>
  /\ UNCHANGED keyVars

\* Faulty variant: an error raised after the last terminal update lands in
\* the catch block, which posts 'failed' for every record once more.
UpdateTerminal_Rethrown(r) ==
  /\ req[r].pc = "updateTerminal"
  /\ req[r].left # <<>>
  /\ LET q == req[r]
         o == Head(q.left)
         q1 == [q EXCEPT !.left = Tail(@), !.terminal = @ \cup {o}]
     IN /\ records' = [records EXCEPT ![r][o] = Updated(@, q.tx, q.final, q.error)]
        /\ req' = [req EXCEPT ![r] =
                     IF q1.left = <<>> THEN WatcherCatch(q1, "log error")
                     ELSE CallBackend(q1)]
  /\ UNCHANGED <<txCount, balance, ledger, funded>>
  /\ UNCHANGED keyVars

\* The terminal updateDualTransactionStatus, one awaited update per record;
\* after the last one the watcher ends.
UpdateTerminal(r) ==
  /\ req[r].pc = "updateTerminal"
  /\ req[r].left # <<>>
  /\ LET q == req[r]
         o == Head(q.left)
         q1 == [q EXCEPT !.left = Tail(@), !.terminal = @ \cup {o}]
     IN /\ records' = [records EXCEPT ![r][o] = Updated(@, q.tx, q.final, q.error)]
        /\ req' = [req EXCEPT ![r] =
                     IF q1.left = <<>> THEN [q1 EXCEPT !.pc = "settled", !.polls = 0]
                     ELSE CallBackend(q1)]
  /\ UNCHANGED <<txCount, balance, ledger, funded>>
  /\ UNCHANGED keyVars

\* ------------------------------------------------------ the specification
Next ==
  \E r \in Reqs :
    \/ EmailStart(r)
    \/ EmailLookupFrom(r)
    \/ EmailLookupTo(r)
    \/ WalletStart(r)
    \/ GetBalance(r)
    \/ CreateSender(r)
    \/ CreateReceiver(r)
    \/ GetTransactionCount(r)
    \/ GetGasPrice(r)
    \/ SignTransaction(r)
    \/ SendSignedTransaction(r)
    \/ FaucetStart(r)
    \/ FaucetCreate(r)
    \/ FaucetSend(r)
    \/ UpdateSubmitted(r)
    \/ Poll(r)
    \/ GetBlock(r)
    \/ UpdateTerminal(r)

Spec == Init /\ [][Next]_vars


\* ----------------------------------------------------- POST /wallet/create
\* '0x' + crypto.randomBytes(32).toString('hex') of the c-th request: a key
\* no other request draws.
randomKey(c) == "key 0xC" \o ToString(c)
\* web3.eth.accounts.privateKeyToAccount(privateKey).address
NewAddresses == {"0xC" \o ToString(c) : c \in WReqs}
privateKeyToAccount(privateKey) ==
  CHOOSE a \in NewAddresses : PrivateKeyOf(a) = privateKey
\* Every signing key of the model, stored at the start or generated later.
PrivateKeys ==
  {PrivateKeyOf(a) : a \in WalletStore} \cup {randomKey(c) : c \in WReqs}

\* loadWalletStore: the parsed file, or {} when the file cannot be read or
\* parsed (the error is logged).
EmptyStore == [u \in StoreKeys |-> NoWallet]
loadWalletStore(readable) == IF readable THEN walletStore ELSE EmptyStore

\* getPrivateKeyForWallet on the persisted store: the keys of the records
\* whose address matches walletAddress, compared in lower case; it throws
\* when there is none.
KeyRecords(w) ==
  {u \in StoreKeys :
     /\ walletStore[u] # NoWallet
     /\ toLowerCase(walletStore[u].address) = toLowerCase(w)}

\* Faulty variant: the key is stored as it is, under no cipher.
WalletRecord_Plain(privateKey, address, iv) ==
  [address |-> address,
   encryptedKey |-> [iv |-> iv, content |-> Cipher("none", iv, privateKey),
                     tag |-> AuthTag("none", iv, Cipher("none", iv, privateKey), 16)]]

\* The record put under the userId: the encrypted key and the address
\* (createdAt and userName are left out).
WalletRecord(privateKey, address, iv) ==
  [address |-> address, encryptedKey |-> encrypt(privateKey, iv)]

\* The synchronous part of the handler for a request that names userId u:
\* a key is generated, the store is loaded, the record is put under userId,
\* and saveWalletStore writes the whole store; a failed write is logged and
\* the handler goes on.  Then mapUserToWallet is awaited.
CreateWallet(c, u, iv, readable, written) ==
  LET privateKey == randomKey(c)
      a == privateKeyToAccount(privateKey)
      store == [loadWalletStore(readable) EXCEPT ![u] = WalletRecord(privateKey, a, iv)]
  IN /\ walletStore' = IF written THEN store ELSE walletStore
     /\ wreq' = [wreq EXCEPT ![c] =
          [@ EXCEPT !.pc = "mapping", !.userId = u, !.address = a,
                    !.isFundingAvailable = isWalletEligibleForBonus(a),
                    !.saved = written]]

BoolText(b) == IF b THEN "true" ELSE "false"
\* The handler up to its only await; 400 when userId is missing.
CreateStart(c) ==
  /\ wreq[c].pc = "idle"
  /\ IF c = 1 THEN TRUE ELSE wreq[c - 1].pc # "idle"
  /\ \E u \in UserIds \cup {Missing} :
       IF u = Missing
       THEN /\ wreq' = [wreq EXCEPT ![c] =
                 [@ EXCEPT !.pc = "done", !.resp = 400,
                           !.body = [success |-> "false",
                                     error |-> "User ID is required"]]]
            /\ UNCHANGED walletStore
       ELSE \E iv \in IVs, readable \in BOOLEAN, written \in BOOLEAN :
              CreateWallet(c, u, iv, readable, written)
  /\ UNCHANGED payVars
  /\ UNCHANGED <<box, upd, deployVars>>

\* The body of the success response, as the JSON text of each field.
CreateResponse(c, mapped) ==
  [success |-> "true", address |-> wreq[c].address,
   isFundingAvailable |-> BoolText(wreq[c].isFundingAvailable),
   mapping |-> BoolText(mapped), message |-> "Wallet created successfully",
   stored_in_nodejs |-> "true"]

\* mapUserToWallet returned (mapped or not) or threw: the handler answers
\* success with the address either way.
CreateMapped(c) ==
  /\ wreq[c].pc = "mapping"
  /\ \E m \in {"mapped", "refused", "threw"} :
       wreq' = [wreq EXCEPT ![c] =
         [@ EXCEPT !.pc = "done", !.resp = 200, !.success = TRUE,
                   !.mapping = (m = "mapped"),
                   !.body = CreateResponse(c, m = "mapped")]]
  /\ UNCHANGED walletStore
  /\ UNCHANGED payVars
  /\ UNCHANGED <<box, upd, deployVars>>

KeyNext == \E c \in WReqs : CreateStart(c) \/ CreateMapped(c)

KeySpec == Init /\ [][KeyNext]_vars

\* ------------------------------------------- termination and restart
\* The requests whose handler or watcher is running.
InFlight == {r \in Reqs : req[r].pc \notin {"idle", "done", "settled", "abandoned"}}

\* Faulty variant: a watcher that is running is started again after the
\* restart and polls for the receipt anew.
Abandon_Resumed(r) ==
  IF req[r].watcher /\ req[r].terminal = {}
  THEN [req[r] EXCEPT !.pc = "poll", !.polls = 0]
  ELSE [req[r] EXCEPT !.pc = "abandoned"]

\* What process.exit leaves of a running handler or watcher: nothing runs
\* on, and main() starts no watcher for a payment made before the restart.
Abandon(r) == [req[r] EXCEPT !.pc = "abandoned"]

\* The process terminates (cleanup on a signal or an uncaught exception,
\* process.exit on an unhandled rejection, or a kill) while requests are in
\* flight, and is started again: the backend and the chain keep their
\* state, the handlers and watchers of the old process are gone.
Terminate ==
  /\ InFlight # {}
  /\ req' = [r \in Reqs |-> IF r \in InFlight THEN Abandon(r) ELSE req[r]]
  /\ UNCHANGED <<records, txCount, balance, ledger, funded>>
  /\ UNCHANGED keyVars

RestartNext == Next \/ Terminate

RestartSpec == Init /\ [][RestartNext]_vars

\* ------------------------------------------------- encrypt and decrypt
\* encrypt(text) for a signing key and the IV randomBytes returned.
EncryptCall ==
  /\ box.pc = "idle"
  /\ \E text \in PrivateKeys, iv \in IVs :
       box' = [box EXCEPT !.pc = "encrypted", !.text = text,
                          !.encrypted = encrypt(text, iv)]
  /\ UNCHANGED payVars
  /\ UNCHANGED storeVars
  /\ UNCHANGED <<upd, deployVars>>

\* What a stored record can be changed into while it lies in the file: the
\* IV, the ciphertext or the tag is replaced by another value of its kind;
\* a tag also by its first 2, 4 or 8 bytes.
SymmetricKeys == {ENCRYPTION_KEY, OtherKey}
Contents == {Cipher(k, iv, t) : k \in SymmetricKeys, iv \in IVs, t \in PrivateKeys}
Alterations(e) ==
  {[e EXCEPT !.iv = iv] : iv \in (IVs \cup {"iv3"}) \ {e.iv}}
    \cup {[e EXCEPT !.content = c] : c \in Contents \ {e.content}}
    \cup {[e EXCEPT !.tag = t] :
            t \in {AuthTag(k, e.iv, e.content, n) :
                     k \in SymmetricKeys, n \in {2, 4, 8, 16}} \ {e.tag}}
    \cup {[e EXCEPT !.tag = AuthTag(ENCRYPTION_KEY, iv, e.content, 16)] :
            iv \in IVs \ {e.iv}}

AlterRecord ==
  /\ box.pc = "encrypted"
  /\ \E e \in Alterations(box.encrypted) :
       box' = [box EXCEPT !.pc = "altered", !.encrypted = e, !.altered = TRUE]
  /\ UNCHANGED payVars
  /\ UNCHANGED storeVars
  /\ UNCHANGED <<upd, deployVars>>

\* decrypt(encrypted) in the process that encrypted, or in a process started
\* with another symmetric key.
DecryptCall ==
  /\ box.pc \in {"encrypted", "altered"}
  /\ \E key \in SymmetricKeys :
       box' = [box EXCEPT !.pc = "decrypted", !.key = key,
                          !.out = decrypt(box.encrypted, key)]
  /\ UNCHANGED payVars
  /\ UNCHANGED storeVars
  /\ UNCHANGED <<upd, deployVars>>

CryptoNext == EncryptCall \/ AlterRecord \/ DecryptCall

CryptoSpec == Init /\ [][CryptoNext]_vars

\* ------------------------------------------------ repeated status updates
\* The body updateTransactionStatusPHP posts: the hash under both names, the
\* status and the extra fields, nothing else.
RequestBody(txHash, status, extra) ==
  [txHash |-> txHash, tx_hash |-> txHash, status |-> status,
   error_message |-> extra]

\* Faulty variant of the backend: an update that changes nothing is answered
\* with success false.
webhook_update_ChangedOnly(rec, body) ==
  LET new == Updated(rec, body.tx_hash, body.status, body.error_message)
  IN [record |-> new, success |-> (new # rec)]

\* The backend's record-update endpoint: the record is updated by hash with
\* the fields of the body, and success is reported.
webhook_update(rec, body) ==
  [record |-> Updated(rec, body.tx_hash, body.status, body.error_message),
   success |-> TRUE]

\* The backend holds a record, 'pending' or already 'submitted' with a hash.
UpdateReady ==
  /\ upd.pc = "idle"
  /\ \E rec \in {PendingRecord, Updated(PendingRecord, 1, "submitted", "none")} :
       upd' = [upd EXCEPT !.pc = "ready", !.record = rec]
  /\ UNCHANGED payVars
  /\ UNCHANGED storeVars
  /\ UNCHANGED <<box, deployVars>>

\* updateTransactionStatusPHP(txHash, status, extra), first and second call:
\* the body is posted; the result of the backend is returned, or
\* {success: false} when the call failed on the way.
UpdateCall ==
  /\ upd.pc \in {"ready", "once"}
  /\ \E txHash \in 1..2, status \in {"submitted", "completed", "failed"},
        extra \in {"none", RevertMessage}, up \in BOOLEAN :
       LET body == RequestBody(txHash, status, extra)
           w == IF up THEN webhook_update(upd.record, body)
                ELSE [record |-> upd.record, success |-> FALSE]
       IN upd' = IF upd.pc = "ready"
                 THEN [upd EXCEPT !.pc = "once", !.first = body,
                                  !.record = w.record, !.after1 = w.record,
                                  !.results = <<w.success>>,
                                  !.reached = <<up>>]
                 ELSE [upd EXCEPT !.pc = "twice", !.second = body,
                                  !.record = w.record,
                                  !.results = Append(@, w.success),
                                  !.reached = Append(@, up)]
  /\ UNCHANGED payVars
  /\ UNCHANGED storeVars
  /\ UNCHANGED <<box, deployVars>>

UpdateNext == UpdateReady \/ UpdateCall

UpdateSpec == Init /\ [][UpdateNext]_vars

\* ------------------------------------------ blockchain-server.js: Ganache
appVars == <<payVars, walletStore, wreq, box, upd>>
\* What the server's handlers leave alone.
notServer == <<appVars, registry, manager>>

Alive(p) == server.procs[p] = "running"
Spawned == {p \in Pids : server.procs[p] # "none"}

\* startGanache(): with a handle the promise is resolved at once ('already
\* running'); otherwise a child is spawned, the handle is set, the stdout,
\* stderr and 'close' handlers are attached, and the executor ends without
\* calling resolve or reject, so the promise it returned stays pending.
startGanache(s) ==
  IF s.ganacheProcess # 0
  THEN [server |-> s, promise |-> "resolved"]
  ELSE LET p == Cardinality(Spawned) + 1
       IN [server |-> [s EXCEPT !.ganacheProcess = p, !.procs[p] = "running"],
           promise |-> "pending"]

\* startGanache can be called: a handle is set or a further child can be
\* spawned within the bound.
CanStart == server.ganacheProcess # 0 \/ Cardinality(Spawned) < MaxSpawns

\* stopGanache(): without a handle 'not running'; otherwise process.kill of
\* the child's process group, which signals it or throws; after a kill that
\* returned the handle and the started flag are cleared.
stopGanache(s, killed) ==
  IF s.ganacheProcess = 0 THEN s
  ELSE IF ~killed THEN s
  ELSE [s EXCEPT !.ganacheProcess = 0, !.started = FALSE,
                 !.procs[s.ganacheProcess] =
                    IF @ = "running" THEN "exiting" ELSE @]

\* app.listen's callback: await startGanache().
Listen ==
  /\ server.boot = "init"
  /\ CanStart
  /\ LET c == startGanache(server)
     IN server' = [c.server EXCEPT !.boot = "awaitStart", !.promise = c.promise]
  /\ UNCHANGED notServer

\* POST /start-ganache: startGanache() is called and 'starting' is answered.
StartRoute ==
  /\ server.boot # "init"
  /\ CanStart
  /\ server' = startGanache(server).server
  /\ UNCHANGED notServer

\* POST /stop-ganache: stopGanache() is called and 'stopping' is answered.
StopRoute ==
  /\ server.boot # "init"
  /\ \E killed \in BOOLEAN : server' = stopGanache(server, killed)
  /\ UNCHANGED notServer

\* A child ends on its own (it cannot bind the port, or it crashes).
Exit(p) ==
  /\ Alive(p)
  /\ server' = [server EXCEPT !.procs[p] = "exiting"]
  /\ UNCHANGED notServer

\* The stdout 'data' handler of child p for the output with 'Listening on':
\* the started flag is set and parseGanacheAccountsAndKeys is awaited.
Stdout(p) ==
  /\ server.procs[p] \in {"running", "exiting"}
  /\ p \notin server.heard
  /\ server' = [server EXCEPT !.heard = @ \cup {p}, !.started = TRUE,
                              !.parsing = @ \cup {p}]
  /\ UNCHANGED notServer

\* The 'close' handler of child p: the module's handle and the started flag
\* are cleared, whichever child the handle refers to.
Close(p) ==
  /\ server.procs[p] = "exiting"
  /\ server' = [server EXCEPT !.procs[p] = "closed", !.ganacheProcess = 0,
                              !.started = FALSE]
  /\ UNCHANGED notServer

\* An async function goes on after its await: the listen callback once the
\* promise of startGanache is settled (deployAndRegisterContracts deploys
\* PaymentManager and registers the payment routes, or throws), a stdout
\* handler once the accounts are parsed and encrypted.
Tasks == {0} \cup Pids
Resume(t) ==
  /\ IF t = 0
     THEN /\ server.boot = "awaitStart"
          /\ server.promise = "resolved"
          /\ \E deployed \in BOOLEAN :
               server' = [server EXCEPT
                            !.boot = IF deployed THEN "deployed" ELSE "failed",
                            !.routes = deployed]
     ELSE /\ t \in server.parsing
          /\ server' = [server EXCEPT !.parsing = @ \ {t},
                                      !.custodianWallets = TRUE]
  /\ UNCHANGED notServer

GanacheNext ==
  \/ Listen
  \/ StartRoute
  \/ StopRoute
  \/ \E p \in Pids : Exit(p)
  \/ \E p \in Pids : Stdout(p)
  \/ \E p \in Pids : Close(p)
  \/ \E t \in Tasks : Resume(t)

GanacheSpec == Init /\ [][GanacheNext]_vars

\* The same server under the scheduling startup relies on: the listen
\* callback runs, the events of the children are delivered, and an async
\* function whose await has settled goes on.  Requests and the end of a
\* child are up to the environment.
GanacheLiveSpec ==
  /\ GanacheSpec
  /\ WF_vars(Listen)
  /\ \A p \in Pids : WF_vars(Stdout(p)) /\ WF_vars(Close(p))
  /\ \A t \in Tasks : WF_vars(Resume(t))

\* ------------------------------------------------------ EmailRegistry.sol
notRegistry == <<appVars, server, manager>>

\* A failed require: the transaction reverts and the storage is as before.
RevertedCall(st) == [reverted |-> TRUE, storage |-> st]

\* Faulty variant: the update of a registered email is open to any sender.
registerEmail_AnySender(st, sender, emailHash, wallet) ==
  IF wallet = ZeroAddress THEN RevertedCall(st)
  ELSE IF emailHash = ZeroHash THEN RevertedCall(st)
  ELSE LET currentWallet == st.emailToWallet[emailHash]
           s1 == IF currentWallet # ZeroAddress
                 THEN [st EXCEPT !.walletToEmail[currentWallet] = ZeroHash]
                 ELSE [st EXCEPT !.registrationTimestamps[emailHash] = st.timestamp]
       IN [reverted |-> FALSE,
           storage |-> [s1 EXCEPT !.emailToWallet[emailHash] = wallet,
                                  !.walletToEmail[wallet] = emailHash]]

\* registerEmail(emailHash, wallet) called by msg.sender = sender on the
\* storage st, in a block with timestamp st.timestamp.
registerEmail(st, sender, emailHash, wallet) ==
  IF wallet = ZeroAddress THEN RevertedCall(st)
  ELSE IF emailHash = ZeroHash THEN RevertedCall(st)
  ELSE LET currentWallet == st.emailToWallet[emailHash]
       IN IF currentWallet # ZeroAddress /\ currentWallet # sender
          THEN RevertedCall(st)
          ELSE LET s1 == IF currentWallet # ZeroAddress
                         THEN [st EXCEPT !.walletToEmail[currentWallet] = ZeroHash]
                         ELSE [st EXCEPT !.registrationTimestamps[emailHash] =
                                           st.timestamp]
               IN [reverted |-> FALSE,
                   storage |-> [s1 EXCEPT !.emailToWallet[emailHash] = wallet,
                                          !.walletToEmail[wallet] = emailHash]]

getWalletByEmail(e) == IF e = ZeroHash THEN ZeroAddress ELSE registry.emailToWallet[e]
getEmailByWallet(w) == IF w = ZeroAddress THEN ZeroHash ELSE registry.walletToEmail[w]

\* A transaction that calls registerEmail, mined in a block whose timestamp
\* is not before the latest one.
RegisterEmail ==
  /\ registry.call.n < MaxCalls
  /\ \E sender \in Wallets, emailHash \in Hashes \cup {ZeroHash},
        wallet \in Wallets \cup {ZeroAddress}, t \in 1..MaxTime :
       /\ t >= registry.timestamp
       /\ LET st == [registry EXCEPT !.timestamp = t]
              out == registerEmail(st, sender, emailHash, wallet)
          IN registry' =
               [out.storage EXCEPT !.call =
                  [sender |-> sender, emailHash |-> emailHash, wallet |-> wallet,
                   currentWallet |-> getWalletByEmail(emailHash),
                   reverted |-> out.reverted, n |-> registry.call.n + 1]]
  /\ UNCHANGED notRegistry

RegistryNext == RegisterEmail

RegistrySpec == Init /\ [][RegistryNext]_vars

\* ------------------------------------------------ PaymentManager (hardened)
notManager == <<appVars, server, registry>>

Senders == {Deployer0, "b"}
Recipients == {"a", This, ZeroAddress}
GuardedFunctions ==
  {"sendPaymentToWallet", "sendPaymentFromWallet", "batchPaymentToWallets",
   "withdrawAll", "withdrawAmount"}

\* No transaction to the contract is being executed.
AtRest == manager.call.pc \notin {"call", "refund"}

\* A transaction from sender with msg.value = value is executed: the value
\* is moved to the contract before the function's code runs.
Begun(s, fn, sender, value, toWallets, amounts) ==
  [s EXCEPT
     !.txs = @ + 1,
     !.bal = [@ EXCEPT ![sender] = @ - value, ![This] = @ + value],
     !.call = [NoManagerCall EXCEPT
                 !.fn = fn, !.sender = sender, !.value = value,
                 !.toWallets = toWallets, !.amounts = amounts,
                 !.pre = [status |-> s.status, owner |-> s.owner, bal |-> s.bal]]]

\* A failed require or a failed external call: the transaction reverts, the
\* storage and every balance are as before it.
Revert(s) ==
  [s EXCEPT !.status = s.call.pre.status, !.owner = s.call.pre.owner,
            !.bal = s.call.pre.bal, !.call.pc = "reverted"]

\* modifier nonReentrant, before the body: the check, then _status = _ENTERED.
GuardBlocks(s) == s.status = ENTERED
Entered(s) == [s EXCEPT !.status = ENTERED]

\* Faulty variant: the guard is not reset after the body.
ExitGuard_Stuck(s) == [s EXCEPT !.call.pc = "ok"]

\* modifier nonReentrant, after the body: _status = _NOT_ENTERED; the
\* function returns and the transaction succeeds.
ExitGuard(s) == [s EXCEPT !.status = NOT_ENTERED, !.call.pc = "ok"]

\* (bool sent, ) = to.call{value: amt}(""): the call is being made.
ExternalCall(s, to, amt, pc) ==
  [s EXCEPT !.call.to = to, !.call.amt = amt, !.call.pc = pc]

\* Faulty variant: what is left of msg.value is not refunded.
AfterLoop_NoRefund(s) == ExitGuard(s)

\* batchPaymentToWallets after its loop: the rest of msg.value is refunded to
\* the sender when there is one, and BatchCompleted is emitted.
AfterLoop(s) ==
  IF s.call.remaining > 0
  THEN ExternalCall(s, s.call.sender, s.call.remaining, "refund")
  ELSE ExitGuard(s)

\* The loop of batchPaymentToWallets from entry i on, up to the next
\* external call, a failed require, or its end.
RECURSIVE BatchFrom(_, _)
BatchFrom(s, i) ==
  IF i > Len(s.call.toWallets) THEN AfterLoop([s EXCEPT !.call.i = i])
  ELSE LET to == s.call.toWallets[i]
           amt == s.call.amounts[i]
       IN IF to = ZeroAddress THEN Revert(s)
          ELSE IF amt = 0 THEN BatchFrom(s, i + 1)
          ELSE IF ~(s.call.remaining >= amt) THEN Revert(s)
          ELSE ExternalCall([s EXCEPT !.call.remaining = @ - amt,
                                      !.call.totalSent = @ + amt,
                                      !.call.i = i],
                            to, amt, "call")

\* sendPaymentToWallet(toWallet) and sendPaymentFromWallet(toWallet), which
\* have the same body.
sendPaymentToWallet(s) ==
  IF GuardBlocks(s) THEN Revert(s)
  ELSE IF ~(s.call.value > 0) THEN Revert(s)
  ELSE IF s.call.toWallets[1] = ZeroAddress THEN Revert(s)
  ELSE ExternalCall(Entered(s), s.call.toWallets[1], s.call.value, "call")

batchPaymentToWallets(s) ==
  IF GuardBlocks(s) THEN Revert(s)
  ELSE IF ~(Len(s.call.toWallets) > 0) THEN Revert(s)
  ELSE IF Len(s.call.toWallets) # Len(s.call.amounts) THEN Revert(s)
  ELSE BatchFrom([Entered(s) EXCEPT !.call.remaining = s.call.value,
                                    !.call.totalSent = 0], 1)

\* withdrawAll() and withdrawAmount(amount): onlyOwner, then nonReentrant.
withdrawAll(s) ==
  IF s.call.sender # s.owner THEN Revert(s)
  ELSE IF GuardBlocks(s) THEN Revert(s)
  ELSE IF ~(s.bal[This] > 0) THEN Revert(s)
  ELSE ExternalCall(Entered(s), s.owner, s.bal[This], "call")

withdrawAmount(s) ==
  IF s.call.sender # s.owner THEN Revert(s)
  ELSE IF GuardBlocks(s) THEN Revert(s)
  ELSE IF ~(s.call.amounts[1] <= s.bal[This]) THEN Revert(s)
  ELSE ExternalCall(Entered(s), s.owner, s.call.amounts[1], "call")

\* A transaction can be sent: none is being executed, the bound on their
\* number is not reached, and the sender holds the value.
CanSend(sender, value) ==
  /\ AtRest
  /\ manager.txs < MaxTxs
  /\ manager.bal[sender] >= value

SendPaymentToWallet ==
  /\ \E sender \in Senders, value \in 0..MaxValue, to \in Recipients,
        fn \in {"sendPaymentToWallet", "sendPaymentFromWallet"} :
       /\ CanSend(sender, value)
       /\ manager' = sendPaymentToWallet(
                       Begun(manager, fn, sender, value, <<to>>, <<>>))
  /\ UNCHANGED notManager

Lists(S) == {<<x>> : x \in S} \cup {<<x, y>> : x \in S, y \in S}

BatchPaymentToWallets ==
  /\ \E sender \in Senders, value \in 0..MaxValue,
        toWallets \in Lists(Recipients) \cup {<<>>},
        amounts \in Lists(0..MaxAmount) :
       /\ CanSend(sender, value)
       /\ manager' = batchPaymentToWallets(
                       Begun(manager, "batchPaymentToWallets", sender, value,
                             toWallets, amounts))
  /\ UNCHANGED notManager

\* The two withdraw functions are not payable: the transaction carries no
\* value.
Withdraw ==
  /\ \E sender \in Senders :
       /\ CanSend(sender, 0)
       /\ \/ manager' = withdrawAll(
                          Begun(manager, "withdrawAll", sender, 0, <<>>, <<>>))
          \/ \E amount \in 0..MaxValue :
               manager' = withdrawAmount(
                            Begun(manager, "withdrawAmount", sender, 0, <<>>,
                                  <<amount>>))
  /\ UNCHANGED notManager

\* transferOwnership(newOwner): onlyOwner, no guard, no external call.
TransferOwnership ==
  /\ \E sender \in Senders, newOwner \in {"b", Deployer0, ZeroAddress} :
       /\ CanSend(sender, 0)
       /\ LET s == Begun(manager, "transferOwnership", sender, 0, <<newOwner>>, <<>>)
          IN manager' =
               IF sender # s.owner \/ newOwner = ZeroAddress THEN Revert(s)
               ELSE [s EXCEPT !.owner = newOwner, !.call.pc = "ok"]
  /\ UNCHANGED notManager

\* receive(): a plain transfer of ether to the contract.
Receive ==
  /\ \E sender \in Senders, value \in 1..MaxValue :
       /\ CanSend(sender, value)
       /\ manager' = [Begun(manager, "receive", sender, value, <<>>, <<>>)
                        EXCEPT !.call.pc = "ok"]
  /\ UNCHANGED notManager

\* While the contract's external call runs, the recipient's code calls one
\* of the guarded functions of the contract.  The modifier's check decides:
\* with the guard set the nested call reverts.  (The body of a nested call
\* that got past the check is not followed further.)
Reenter ==
  /\ manager.call.pc \in {"call", "refund"}
  /\ manager.call.to # This
  /\ manager.call.nested = "none"
  /\ \E fn \in GuardedFunctions :
       manager' = [manager EXCEPT
                     !.call.nestedFn = fn,
                     !.call.nested =
                        IF GuardBlocks(manager) THEN "reverted" ELSE "entered"]
  /\ UNCHANGED notManager

\* The external call returns.  sent = true: the value has moved to the
\* recipient, and the function goes on (the next entry of the batch, the
\* refund, or the end).  sent = false (the recipient's code reverted, also by
\* passing on the revert of a nested call): the require after the call
\* fails.  The contract's own receive() accepts every transfer.
Returns ==
  /\ manager.call.pc \in {"call", "refund"}
  /\ \E sent \in BOOLEAN :
       /\ manager.call.to = This => sent
       /\ LET c == manager.call
              s == [manager EXCEPT
                      !.bal = [[@ EXCEPT ![This] = @ - c.amt]
                                 EXCEPT ![c.to] = @ + c.amt]]
          IN manager' =
               IF ~sent THEN Revert(manager)
               ELSE IF c.pc = "refund" THEN ExitGuard(s)
               ELSE IF c.fn = "batchPaymentToWallets" THEN BatchFrom(s, c.i + 1)
               ELSE ExitGuard(s)
  /\ UNCHANGED notManager

ManagerNext ==
  \/ SendPaymentToWallet
  \/ BatchPaymentToWallets
  \/ Withdraw
  \/ TransferOwnership
  \/ Receive
  \/ Reenter
  \/ Returns

ManagerSpec == Init /\ [][ManagerNext]_vars

\* The same program under the scheduling the claims on termination assume:
\* the process keeps running, the timers of the poll loop fire, and every
\* backend call and chain call the handler or the watcher awaits after the
\* broadcast returns (with an answer or an error).
Fairness ==
  \A r \in Reqs :
    /\ WF_vars(UpdateSubmitted(r))
    /\ WF_vars(Poll(r))
    /\ WF_vars(GetBlock(r))
    /\ WF_vars(UpdateTerminal(r))

LiveSpec == Init /\ [][Next]_vars /\ Fairness


\* ---------------------------------------------------------------- claims
\* The record-creation calls a payment of this kind makes.
ExpectedCreates(kind) == IF kind = "faucet" THEN 1 ELSE 2
\* The transactions on the chain that request r broadcast.
Entries(r) == {h \in DOMAIN ledger : ledger[h].by = r}
NoRecordCreated(r) == \A o \in Roles : records[r][o].status = "none"
Started(r) == req[r].kind # "none"

\* C1: two payment requests of one sender whose handlers are in flight
\* together never have broadcasts in flight that were signed with the same
\* transaction count.
C1_DistinctNonces ==
  \A r1, r2 \in Reqs :
    /\ r1 # r2
    /\ req[r1].pc = "sendSignedTransaction"
    /\ req[r2].pc = "sendSignedTransaction"
    /\ toLowerCase(req[r1].fromWallet) = toLowerCase(req[r2].fromWallet)
    => req[r1].nonce # req[r2].nonce

\* C2: a request whose amountEth is <= 0 or not numeric never gets an
\* off-chain record and never causes a chain call, and it is answered 400.
C2_BadAmountRejectedFirst ==
  \A r \in Reqs :
    Started(r) /\ (NotPositive(req[r].amt) \/ IsNaN(req[r].amt))
    => /\ NoRecordCreated(r)
       /\ req[r].creates = 0
       /\ req[r].chainCalls = 0
       /\ req[r].pc = "done" => req[r].resp = 400

\* C3: a failed record creation never ends the payment: a handler that ended
\* without a broadcast after a record creation failed ended for another
\* reason than the failed creation.
C3_RecordFailureNeverAborts ==
  \A r \in Reqs :
    req[r].createFailed /\ req[r].pc = "done" /\ req[r].sends = 0
    => req[r].body \notin {"Failed to create transaction records",
                           "Failed to create transaction record"}


\* C4: no request broadcasts its transfer twice, and a request that was
\* accepted (answered with success) broadcast exactly one transaction, which
\* is the one on the chain under the hash it reports.
C4_ExactlyOneBroadcast ==
  \A r \in Reqs :
    /\ req[r].sends <= 1
    /\ Cardinality(Entries(r)) <= req[r].sends
    /\ req[r].resp = 200
       => req[r].sends = 1 /\ Entries(r) = {req[r].tx}

\* Two requests in flight together were both accepted, each with its own
\* transaction on the chain.
C4_Witness ==
  /\ \A r \in Reqs : req[r].resp = 200
  /\ Len(ledger) = NumReqs

\* C5: when the broadcast of a payment is issued, every record-creation call
\* of the payment has been answered, and the records created are 'pending'.
C5_RecordsBeforeBroadcast ==
  \A r \in Reqs :
    /\ req[r].sends >= 1 => req[r].creates = ExpectedCreates(req[r].kind)
    /\ req[r].pc \in {"sendSignedTransaction", "faucetSend"}
       => \A o \in Roles :
            records[r][o].status =
              IF o \in RecordSet(req[r]) THEN "pending" ELSE "none"

\* A broadcast is in flight with only the receiver's record created.
C5_Witness ==
  \E r \in Reqs :
    /\ req[r].pc = "sendSignedTransaction"
    /\ req[r].dualRecords = <<"receiver">>
    /\ records[r]["receiver"].status = "pending"

\* C6: the watcher issues a terminal update only after the 'submitted'
\* update of every record of the payment was issued and has returned.
C6_SubmittedBeforeTerminal ==
  \A r \in Reqs :
    /\ req[r].pc = "updateTerminal" \/ req[r].terminal # {}
       => req[r].submitted = RecordSet(req[r])
    /\ \A o \in Roles :
         records[r][o].status \in {"completed", "failed"} => o \in req[r].submitted

\* A payment with both records has had both terminal updates.
C6_Witness ==
  \E r \in Reqs :
    /\ req[r].pc = "settled"
    /\ req[r].terminal = {"sender", "receiver"}
    /\ records[r]["sender"].status = "completed"

\* C7: the balance is read after the identities are resolved and before any
\* record is created; a read that finds it below the amount ends the request
\* with 400 'Insufficient balance', without a record and without a broadcast.
C7_State ==
  \A r \in Reqs :
    /\ req[r].pc = "getBalance"
       => /\ req[r].creates = 0 /\ NoRecordCreated(r)
          /\ isAddress(req[r].fromWallet) /\ isAddress(req[r].toWallet)
          /\ req[r].kind = "email" => req[r].backendCalls = 2
    /\ req[r].body = "Insufficient balance"
       => /\ req[r].pc = "done" /\ req[r].resp = 400
          /\ req[r].creates = 0 /\ NoRecordCreated(r)
          /\ req[r].sends = 0 /\ Entries(r) = {}

C7_Step ==
  \A r \in Reqs :
    /\ req[r].pc = "getBalance"
    /\ req'[r] # req[r]
    /\ req[r].amt.k = "num"
    /\ balance[toLowerCase(req[r].fromWallet)] < req[r].amt.v
    => /\ req'[r].pc = "done"
       /\ \/ req'[r].resp = 400 /\ req'[r].body = "Insufficient balance"
          \/ req'[r].resp = 500 /\ req'[r].body = "rpc error"

ValidationErrors == {"required", "self", "amount", "ceiling", "address", "same"}

\* C8 as stated: every validation rejection is returned before the handler
\* has made any backend call or chain call.
C8_ValidationBeforeAnyCall ==
  \A r \in Reqs :
    req[r].resp = 400 /\ req[r].body \in ValidationErrors
    => req[r].backendCalls = 0 /\ req[r].chainCalls = 0

\* C8 as amended: a rejection of the request's own fields comes before any
\* backend or chain call, and a request with such a field never gets past
\* the validation; in the email flow the rejection of the resolved wallets
\* comes after the two identity lookups and before any chain call or record
\* creation.
C8_ValidationOrder ==
  \A r \in Reqs :
    /\ req[r].resp = 400 /\ req[r].body \in ValidationErrors
       => /\ req[r].chainCalls = 0 /\ req[r].creates = 0 /\ NoRecordCreated(r)
          /\ \/ req[r].backendCalls = 0
             \/ /\ req[r].kind = "email"
                /\ req[r].body \in {"address", "same"}
                /\ req[r].backendCalls = 2
    /\ /\ Started(r)
       /\ \/ req[r].amt.k = "missing"
          \/ req[r].amt.k = "num"
             /\ (req[r].amt.v <= 0 \/ req[r].amt.v > PaymentCeiling)
       => /\ req[r].pc = "done" /\ req[r].resp = 400
          /\ req[r].backendCalls = 0 /\ req[r].chainCalls = 0
    /\ req[r].kind = "wallet" /\ req[r].pc = "getBalance"
       => /\ isAddress(req[r].from) /\ isAddress(req[r].to)
          /\ toLowerCase(req[r].from) # toLowerCase(req[r].to)
    /\ req[r].kind = "email" /\ req[r].pc \in {"lookupFrom", "lookupTo"}
       => req[r].from # Missing /\ req[r].to # Missing /\ req[r].from # req[r].to
    /\ req[r].kind = "faucet" /\ req[r].pc = "faucetCreate"
       => isAddress(req[r].to)

\* An email payment is rejected for a malformed resolved address after its
\* two lookups.
C8_Witness ==
  \E r \in Reqs :
    /\ req[r].kind = "email" /\ req[r].resp = 400
    /\ req[r].body = "address" /\ req[r].backendCalls = 2

\* C9: a failed broadcast ends the payment with a failure response: no
\* 'submitted' update, no success response, no watcher, no second broadcast.
C9_State ==
  \A r \in Reqs :
    req[r].body \in {"submission failed", "Private key not found"}
    => /\ req[r].pc = "done" /\ req[r].resp = 500
       /\ req[r].submitted = {} /\ req[r].terminal = {}
       /\ ~req[r].watcher
       /\ req[r].sends <= 1
       /\ \A o \in Roles : records[r][o].status \in {"none", "pending"}

C9_Step ==
  \A r \in Reqs :
    /\ /\ req[r].pc \in {"sendSignedTransaction", "faucetSend"}
       /\ req'[r] # req[r]
       /\ ledger' = ledger
       => /\ req'[r].pc = "done" /\ req'[r].resp = 500
          /\ req'[r].body = "submission failed"
          /\ req'[r].sends = req[r].sends
    /\ req[r].pc = "done" => req'[r] = req[r] /\ records'[r] = records[r]

\* C9: a broadcast the chain does not accept ends the handler with a 500
\* response and nothing else, and a handler that ended does nothing more.
C9_BroadcastFailureAborts == []C9_State /\ [][C9_Step]_vars

\* The chain rejected the broadcast of a payment with both records created.
C9_Witness ==
  \E r \in Reqs :
    /\ req[r].body = "submission failed"
    /\ req[r].dualRecords = <<"sender", "receiver">>
    /\ records[r]["sender"].status = "pending"

\* C10: the success response says 'submitted' and is sent after the broadcast
\* and the 'submitted' updates, while the watcher's first poll is pending and
\* before any terminal update is issued; once sent, a response never changes.
C10_State ==
  \A r \in Reqs :
    /\ req[r].resp = 200
       => /\ req[r].body = "submitted"
          /\ req[r].sends = 1 /\ req[r].tx \in Entries(r)
          /\ req[r].submitted = RecordSet(req[r])
          /\ req[r].watcher
    /\ req[r].pc \in {"poll", "getBlock", "updateTerminal", "settled"}
         \/ req[r].terminal # {} \/ req[r].watcher
       => req[r].resp = 200

C10_Step ==
  \A r \in Reqs :
    req[r].resp # 0 => req'[r].resp = req[r].resp /\ req'[r].body = req[r].body

\* C10: the success response precedes every terminal update and, once sent,
\* stays what it was.
C10_ResponseBeforeSettlement == []C10_State /\ [][C10_Step]_vars

\* The response has been sent and the watcher later recorded a failure.
C10_Witness ==
  \E r \in Reqs :
    /\ req[r].resp = 200 /\ req[r].body = "submitted"
    /\ req[r].pc = "settled"
    /\ \E o \in Roles : records[r][o].status = "failed"

\* The watcher of request r has issued every terminal update.
Settled(r) == req[r].pc = "settled" /\ req[r].terminal = RecordSet(req[r])

\* C11: when the polls of the timeout window have all come back empty the
\* watcher turns to the 'failed' update with the timeout message, every
\* created record ends 'failed' with that message, and the message is not
\* the one recorded for a receipt with failure status, which is recorded
\* only for a transaction the chain reverted.
C11_State ==
  /\ TimeoutMessage # RevertMessage
  /\ \A r \in Reqs :
       /\ Settled(r) /\ req[r].error = TimeoutMessage
          => \A o \in RecordSet(req[r]) :
               /\ records[r][o].status = "failed"
               /\ records[r][o].error = TimeoutMessage
       /\ \A o \in Roles :
            records[r][o].error = RevertMessage
            => records[r][o].status = "failed" /\ ~ledger[req[r].tx].ok

C11_Step ==
  \A r \in Reqs :
    /\ req[r].pc = "poll" /\ req'[r].polls = MaxPolls
       => /\ req'[r].pc = "updateTerminal"
          /\ req'[r].final = "failed"
          /\ req'[r].error = TimeoutMessage
          /\ req'[r].left = req[r].dualRecords
    /\ req[r].pc = "updateTerminal" => req'[r].error = req[r].error

C11_TimeoutDistinguishable == []C11_State /\ [][C11_Step]_vars

\* A payment with both records has timed out and both records say so.
C11_Witness ==
  \E r \in Reqs :
    /\ Settled(r) /\ req[r].terminal = {"sender", "receiver"}
    /\ \A o \in req[r].terminal : records[r][o].error = TimeoutMessage

\* C12: waitForReceipt raises an error only when the timeout has elapsed
\* without a receipt: every step of the poll loop that lands in the
\* watcher's catch block is the step that exhausts the timeout window.
C12_RaisesOnlyOnTimeout ==
  [][\A r \in Reqs :
       req[r].pc = "poll" /\ req'[r].pc = "updateTerminal"
       => req'[r].polls = MaxPolls /\ req'[r].error = TimeoutMessage]_vars

\* C14: a record is 'completed' only if the receipt of the payment's
\* transaction has success status, and a watcher that holds a receipt with
\* failure status has 'failed' as its terminal status.
C14_CompletedOnlyOnSuccess ==
  \A r \in Reqs :
    /\ \A o \in Roles :
         records[r][o].status = "completed"
         => /\ records[r][o].txHash = req[r].tx
            /\ req[r].tx \in Entries(r)
            /\ ledger[req[r].tx].ok
    /\ req[r].pc \in {"getBlock", "updateTerminal", "settled"}
       => /\ req[r].final \in {"completed", "failed"}
          /\ ~ledger[req[r].tx].ok => req[r].final = "failed"
          /\ \A o \in req[r].terminal : records[r][o].status = req[r].final

\* One payment was completed and another, reverted by the chain, failed.
C14_Witness ==
  \E r1, r2 \in Reqs :
    /\ Settled(r1) /\ Settled(r2)
    /\ \E o \in Roles : records[r1][o].status = "completed"
    /\ \E o \in Roles : /\ records[r2][o].status = "failed"
                        /\ records[r2][o].error = RevertMessage

\* C13: under fairness, every payment whose broadcast the chain accepted
\* eventually has a terminal update issued for each record it created, and
\* each such record is then 'completed' or 'failed'.
C13_EventuallyTerminal ==
  \A r \in Reqs :
    (Entries(r) # {})
      ~> /\ Settled(r)
         /\ \A o \in RecordSet(req[r]) :
              records[r][o].status \in {"completed", "failed"}

\* A watcher whose receipt query failed has settled both records.
C13_Witness ==
  \E r \in Reqs :
    /\ Entries(r) # {} /\ Settled(r)
    /\ req[r].error = "rpc error"
    /\ req[r].terminal = {"sender", "receiver"}

\* The faucet request r has issued its chain transfer and still holds the
\* address it pays.
FaucetTransferIssued(r) ==
  req[r].kind = "faucet" /\ req[r].pc \in {"faucetSend", "updateSubmitted"}

\* C15: an address receives at most one faucet transfer: no two faucet
\* requests have issued a chain transfer to the same address.
C15_OneFaucetTransferPerAddress ==
  \A r1, r2 \in Reqs :
    r1 # r2 /\ FaucetTransferIssued(r1) /\ FaucetTransferIssued(r2)
    => req[r1].toWallet # req[r2].toWallet

\* The spellings under which an eligibility query may name the address w.
Spellings(w) == {v \in Addresses \cup Accounts : toLowerCase(v) = toLowerCase(w)}

\* C16: once the faucet transfer to an address has succeeded, an eligibility
\* query for that address answers eligible = false, and it does so from then
\* on; an address is eligible iff the store has no funded entry for it.
C16_State ==
  /\ \A r \in Reqs :
       req[r].kind = "faucet" /\ req[r].pc = "updateSubmitted"
       => \A w \in Spellings(req[r].toWallet) : ~BonusEligible(w).eligible
  /\ \A w \in Addresses \cup Accounts :
       BonusEligible(w).eligible <=> w \notin funded

C16_Step ==
  \A w \in Addresses \cup Accounts :
    ~BonusEligible(w).eligible => ~BonusEligible(w).eligible'

C16_FundedNeverEligible == []C16_State /\ [][C16_Step]_vars

\* C17: a faucet request for an address marked funded goes no further than
\* the eligibility check; it is answered 429 (after the validation of its
\* fields), and the 429 answer comes with no backend call, no chain call, no
\* record, no transfer and no change of the eligibility store.
C17_State ==
  \A r \in Reqs :
    /\ req[r].resp = 429 <=> req[r].body = "already funded"
    /\ req[r].resp = 429
       => /\ req[r].kind = "faucet" /\ req[r].pc = "done"
          /\ req[r].backendCalls = 0 /\ req[r].chainCalls = 0
          /\ req[r].creates = 0 /\ req[r].sends = 0
          /\ NoRecordCreated(r) /\ Entries(r) = {}

C17_Step ==
  \A r \in Reqs :
    /\ req[r].pc = "idle" /\ req'[r].pc = "faucetCreate"
       => req'[r].toWallet \notin funded
    /\ req[r].pc = "idle" /\ req'[r].resp = 429
       => /\ funded # {}
          /\ UNCHANGED <<records, txCount, balance, ledger, funded>>

C18_State ==
  \A r \in Reqs :
    /\ req[r].resp = 404
       => /\ req[r].kind = "email" /\ req[r].pc = "done"
          /\ req[r].body = "not found"
          /\ req[r].chainCalls = 0 /\ req[r].creates = 0 /\ req[r].sends = 0
          /\ NoRecordCreated(r) /\ Entries(r) = {}
    /\ req[r].kind = "email" /\ req[r].pc = "getBalance"
       => req[r].fromWallet # Missing /\ req[r].toWallet # Missing

C18_Step ==
  \A r \in Reqs :
    /\ req[r].pc = "lookupFrom" /\ req'[r] # req[r]
       => \/ req'[r].pc = "done" /\ req'[r].resp = 404
          \/ /\ req'[r].pc = "lookupTo"
             /\ Directory(req[r].from) # Missing
             /\ req'[r].fromWallet = Directory(req[r].from)
    /\ req[r].pc = "lookupTo" /\ req'[r] # req[r] /\ Directory(req[r].to) = Missing
       => req'[r].pc = "done" /\ req'[r].resp = 404

C18_IdentityNotFound == []C18_State /\ [][C18_Step]_vars

\* The sender was resolved and the receiver has no mapping: 404 after two
\* lookups.
C18_Witness ==
  \E r \in Reqs : req[r].resp = 404 /\ req[r].backendCalls = 2

\* C19: a signing-key record is never replaced and its address never
\* changes: no wallet-creation request, whatever owner id it names, puts
\* another address under a key of the persisted store that has a record.
C19_KeyRecordsPermanent ==
  [][\A u \in StoreKeys :
       walletStore[u] # NoWallet /\ walletStore'[u] # NoWallet
       => walletStore'[u] = walletStore[u]]_vars

\* C20: a create response that reports success with an address was preceded
\* by the write of the record for that address to the persisted store.
C20_PersistedBeforeSuccess ==
  \A c \in WReqs :
    wreq[c].resp = 200 /\ wreq[c].success => wreq[c].saved

\* C30: when the chain holds a success receipt for a payment within the
\* polling window, the watcher's terminal update is 'completed' and never
\* 'failed', whatever the receipt polls and the block lookup answer: a
\* watcher whose transaction succeeded on chain turns to 'failed' only
\* through the timeout, and once it has read the success receipt it never
\* turns to 'failed' at all.
C30_SuccessReceiptCompletes ==
  [][\A r \in Reqs :
       /\ req[r].pc \in {"poll", "getBlock"}
       /\ ledger[req[r].tx].ok
       /\ req'[r].final = "failed"
       => /\ req[r].pc = "poll"
          /\ req'[r].error = TimeoutMessage]_vars

\* C29: a request passes the balance pre-check only if the sender's balance
\* covers the amount plus the transaction fee (gas limit times gas price),
\* so that no record is created for a payment that cannot succeed for lack
\* of funds (stated for numeric amounts).
C29_PreCheckCoversFee ==
  [][\A r \in Reqs :
       req[r].pc = "getBalance" /\ req'[r].pc = "createSender" /\ ~IsNaN(req[r].amt)
       => balance[toLowerCase(req[r].fromWallet)] >= req[r].amt.v + GasFee]_vars

\* The payment requests answered 200.
Accepted == {r \in Reqs : req[r].kind \in {"email", "wallet"} /\ req[r].resp = 200}

\* C26: payments are not deduplicated: any two accepted payment requests,
\* identical ones included, each made one broadcast of their own, hold
\* different transaction hashes, each the hash of the transaction the
\* request itself put on the chain, and each has its own records carrying
\* its own hash; n accepted requests have put n transactions on the chain.
C26_NoDeduplication ==
  /\ \A r \in Accepted :
       /\ req[r].sends = 1
       /\ req[r].tx \in DOMAIN ledger
       /\ ledger[req[r].tx].by = r
       /\ RecordSet(req[r]) # {}
       /\ \A o \in RecordSet(req[r]) :
            records[r][o].status # "none" /\ records[r][o].txHash = req[r].tx
  /\ \A r1, r2 \in Accepted : r1 # r2 => req[r1].tx # req[r2].tx
  /\ Cardinality({h \in DOMAIN ledger : ledger[h].by \in Accepted})
       = Cardinality(Accepted)

\* Two requests of the same kind for the same sender, receiver and amount
\* were both accepted, and the chain holds one transfer for each.
C26_Witness ==
  \E r1, r2 \in Accepted :
    /\ r1 # r2
    /\ req[r1].kind = req[r2].kind /\ req[r1].amt = req[r2].amt
    /\ req[r1].tx \in DOMAIN ledger /\ req[r2].tx \in DOMAIN ledger
    /\ req[r1].tx # req[r2].tx
    /\ ledger[req[r1].tx].from = ledger[req[r2].tx].from
    /\ ledger[req[r1].tx].to = ledger[req[r2].tx].to
    /\ ledger[req[r1].tx].value = ledger[req[r2].tx].value
    /\ RecordSet(req[r1]) = {"sender", "receiver"}
    /\ RecordSet(req[r2]) = {"sender", "receiver"}

\* C24: createDualTransactionRecords attempts the sender's record and then
\* the receiver's record, whatever the first attempt answered, and never
\* throws: a payment that attempted one creation is waiting to attempt the
\* other.  The list it returns holds exactly the records whose creation
\* succeeded, sender first (length 0, 1 or 2), and every record is 'pending'
\* when it is created.
C24_State ==
  \A r \in Reqs :
    req[r].kind \in {"email", "wallet"}
    => /\ req[r].creates \in 0..2
       /\ req[r].creates = 1 <=> req[r].pc = "createReceiver"
       /\ req[r].creates = 0 => req[r].dualRecords = <<>>
       /\ req[r].dualRecords \in
            {<<>>, <<"sender">>, <<"receiver">>, <<"sender", "receiver">>}
       /\ RecordSet(req[r]) = {o \in Roles : records[r][o].status # "none"}
       /\ req[r].createFailed <=> Len(req[r].dualRecords) < req[r].creates
       /\ req[r].pc = "createReceiver"
          => \A o \in RecordSet(req[r]) : records[r][o] = PendingRecord

C24_Step ==
  \A r \in Reqs : \A o \in Roles :
    records[r][o].status = "none" /\ records'[r][o].status # "none"
    => /\ records'[r][o] = PendingRecord
       /\ req'[r].creates = req[r].creates + 1
       /\ req'[r].dualRecords = Append(req[r].dualRecords, o)

Matching(w) == {s \in WalletStore : toLowerCase(s) = toLowerCase(w)}

\* C27: getPrivateKeyForWallet(address) returns the decrypted key of a stored
\* record whose address equals the given address ignoring case, never the
\* key of a record with another address, and fails with not-found when no
\* record matches; in a payment the not-found failure is answered before
\* the chain is asked for a nonce, before anything is signed and before any
\* broadcast, and a transfer that is broadcast is signed by the account the
\* request named.
C27_State ==
  /\ \A w \in Addresses \cup Accounts :
       /\ Matching(w) = {} <=> getPrivateKeyForWallet(w) = NotFound
       /\ Matching(w) # {}
          => \E s \in Matching(w) : getPrivateKeyForWallet(w) = PrivateKeyOf(s)
       /\ \A s \in WalletStore \ Matching(w) :
            getPrivateKeyForWallet(w) # PrivateKeyOf(s)
  /\ \A r \in Reqs :
       /\ req[r].body = NotFound
          => /\ req[r].pc = "done" /\ req[r].resp = 500
             /\ req[r].sends = 0 /\ Entries(r) = {}
             /\ req[r].chainCalls <= 1
       /\ req[r].pc \in {"getTransactionCount", "getGasPrice",
                         "signTransaction", "sendSignedTransaction"}
          => Matching(req[r].fromWallet) # {}

C27_Step ==
  \A r \in Reqs :
    /\ req[r].pc \in {"createSender", "createReceiver"} /\ req'[r].body = NotFound
       => Matching(req[r].fromWallet) = {}
    /\ Len(ledger') > Len(ledger) /\ ledger'[Len(ledger')].by = r
         /\ req[r].kind \in {"email", "wallet"}
       => /\ ledger'[Len(ledger')].from = toLowerCase(req[r].fromWallet)
          /\ Signer(PrivateKeyOf(req[r].fromWallet)) = ledger'[Len(ledger')].from

C27_KeyOfMatchingRecord == []C27_State /\ [][C27_Step]_vars

\* A payment named its sender in lower case, the store holds the address
\* checksummed, and the transfer was signed and broadcast; another payment
\* named a sender without a stored key and was answered not-found.
C27_Witness ==
  /\ \E r \in Reqs :
       /\ req[r].pc = "updateSubmitted" /\ req[r].fromWallet = "0xaa"
       /\ req[r].fromWallet \notin WalletStore
       /\ ledger[req[r].tx].from = "0xaa"
  /\ \E r \in Reqs : req[r].body = NotFound /\ req[r].creates = 2

\* The blobs encrypt can produce for the signing keys of the model.
EncryptedKeys == {encrypt(k, iv) : k \in PrivateKeys, iv \in IVs}

\* C21: no plaintext signing key is in the persisted key store or in a
\* response body of wallet creation: every stored record consists of an
\* address and an encrypted key {iv, content, tag} that encrypt produced
\* under ENCRYPTION_KEY, and every field of every response body differs from
\* every signing key; a success response carries the address of the new
\* wallet.
C21_NoPlaintextKey ==
  /\ \A u \in StoreKeys :
       walletStore[u] # NoWallet
       => /\ DOMAIN walletStore[u] = {"address", "encryptedKey"}
          /\ walletStore[u].address \notin PrivateKeys
          /\ DOMAIN walletStore[u].encryptedKey = {"iv", "content", "tag"}
          /\ walletStore[u].encryptedKey \in EncryptedKeys
          /\ walletStore[u].encryptedKey.content.key = ENCRYPTION_KEY
  /\ \A c \in WReqs :
       /\ \A f \in DOMAIN wreq[c].body : wreq[c].body[f] \notin PrivateKeys
       /\ wreq[c].resp = 200
          => /\ wreq[c].body.address = wreq[c].address
             /\ wreq[c].address \in NewAddresses

\* A wallet was created, its record is in the store with the key encrypted,
\* and the success response was sent.
C21_Witness ==
  \E c \in WReqs :
    /\ wreq[c].resp = 200 /\ wreq[c].saved
    /\ walletStore[wreq[c].userId].address = wreq[c].address
    /\ decrypt(walletStore[wreq[c].userId].encryptedKey, ENCRYPTION_KEY) = randomKey(c)
    /\ wreq[c].body.address = wreq[c].address

\* C28: decrypt(encrypt(k)) = k for every signing key k, and decrypting a
\* record whose ciphertext, IV or authentication tag was altered, or
\* decrypting under another symmetric key, raises an error and never returns
\* a plaintext.
C28_RoundTripAndTamper ==
  box.pc = "decrypted"
  => IF ~box.altered /\ box.key = ENCRYPTION_KEY
     THEN box.out = box.text
     ELSE box.out = DecryptError

\* C22: no update of the key store is lost: every wallet that a successful
\* POST /wallet/create wrote to the store, for an owner id no other request
\* names, is in the store afterwards, whatever the other requests do.
C22_NoLostUpdate ==
  \A c \in WReqs :
    /\ wreq[c].resp = 200 /\ wreq[c].saved
    /\ \A d \in WReqs \ {c} : wreq[d].userId # wreq[c].userId
    => walletStore[wreq[c].userId].address = wreq[c].address

CutOffSubmitted(r) ==
  /\ req[r].pc = "abandoned"
  /\ req[r].watcher
  /\ req[r].submitted = RecordSet(req[r])
  /\ req[r].terminal = {}

\* C25: when the process terminates after a payment's 'submitted' update and
\* before its watcher issued the terminal update, the watcher is abandoned:
\* after the restart the payment's records are 'submitted' and stay so, and
\* no step takes the payment up again; a termination leaves no handler and
\* no watcher running.
C25_State ==
  \A r \in Reqs :
    CutOffSubmitted(r)
    => \A o \in RecordSet(req[r]) :
         records[r][o].status = "submitted" /\ records[r][o].txHash = req[r].tx

C25_Step ==
  \A r \in Reqs :
    /\ req[r].pc = "abandoned" => req'[r] = req[r] /\ records'[r] = records[r]
    /\ req[r].pc # "abandoned" /\ req'[r].pc = "abandoned"
       => \A q \in Reqs : req'[q].pc \in {"idle", "done", "settled", "abandoned"}

C25_SubmittedForever == []C25_State /\ [][C25_Step]_vars

\* A payment the chain executed successfully was cut off while its watcher
\* ran; its two records are 'submitted', and a payment made after the
\* restart has been settled.
C25_Witness ==
  \E r1, r2 \in Reqs :
    /\ CutOffSubmitted(r1) /\ ledger[req[r1].tx].ok
    /\ RecordSet(req[r1]) = {"sender", "receiver"}
    /\ \A o \in RecordSet(req[r1]) : records[r1][o].status = "submitted"
    /\ r2 > r1 /\ Settled(r2) /\ req[r2].tx > req[r1].tx

\* ------------------------------------------------------------------- C31
TerminalStatuses == {"completed", "failed"}

\* C31: the settlement watcher issues exactly one terminal status update per
\* created record of a payment: the records of one payment all get the same
\* terminal status, no record gets a terminal update twice, no record gets
\* 'completed' and 'failed' both, and no 'submitted' update is issued for a
\* payment after a terminal one.
C31_State ==
  \A r \in Reqs :
    /\ req[r].terminal \subseteq RecordSet(req[r])
    /\ \A o \in req[r].terminal :
         /\ records[r][o].status = req[r].final
         /\ req[r].final \in TerminalStatuses
    /\ req[r].pc = "settled" => req[r].terminal = RecordSet(req[r])
    /\ req[r].pc = "updateSubmitted" => req[r].terminal = {}

C31_Step ==
  \A r \in Reqs :
    \* a terminal update is for a record that had none
    /\ req[r].pc = "updateTerminal" /\ req'[r] # req[r]
       => /\ Head(req[r].left) \notin req[r].terminal
          /\ req'[r].terminal = req[r].terminal \cup {Head(req[r].left)}
    \* the terminal status of a payment is decided once
    /\ req[r].terminal # {}
       => /\ req'[r].final = req[r].final
          /\ req[r].terminal \subseteq req'[r].terminal
    \* a record with a terminal update is not updated again
    /\ \A o \in req[r].terminal : records'[r][o] = records[r][o]
    \* after the last terminal update the watcher has ended
    /\ req[r].pc = "settled" => req'[r] = req[r]

C31_OneTerminalUpdate == []C31_State /\ [][C31_Step]_vars

\* One payment's two records were both updated to 'failed' by the catch
\* block after an RPC error, another payment's records to 'completed'.
C31_Witness ==
  \E r1, r2 \in Reqs :
    /\ req[r1].pc = "settled" /\ req[r1].terminal = {"sender", "receiver"}
    /\ req[r1].final = "failed" /\ req[r1].error = "rpc error"
    /\ records[r1]["sender"].status = "failed"
    /\ records[r1]["receiver"].status = "failed"
    /\ req[r2].pc = "settled" /\ req[r2].final = "completed"
    /\ req[r2].terminal = RecordSet(req[r2])

\* ------------------------------------------------------------------- C34
\* C34: a faucet request that fails before or at the chain transfer (the
\* record is not created, the amount does not convert, or the contract send
\* throws) leaves the funding-eligibility store unchanged: an address is
\* marked funded only in the step in which the send to it succeeded, so the
\* address of a failed request stays eligible and a later faucet request for
\* it is accepted.
C34_State ==
  \* every funded entry has its faucet transfer on the chain
  /\ \A w \in funded :
       \E i \in DOMAIN ledger :
         ledger[i].from = Deployer /\ ledger[i].to = toLowerCase(w)
  /\ \A r \in Reqs :
       req[r].kind = "faucet" /\ req[r].resp = 500
       => /\ req[r].tx = 0
          /\ \A i \in DOMAIN ledger : ledger[i].by # r

C34_Step ==
  \A r \in Reqs :
    \* the failing step of the handler leaves the store as it was
    /\ req[r].pc \in {"faucetCreate", "faucetSend"} /\ req'[r].resp = 500
       => /\ funded' = funded
          /\ \A w \in FaucetTargets :
               isWalletEligibleForBonus(w) => w \notin funded'
    \* the store changes only with a send that succeeded, by its address
    /\ req[r].pc = "faucetSend" /\ req'[r].pc # "faucetSend" /\ req'[r].resp # 500
       => /\ Len(ledger') = Len(ledger) + 1
          /\ funded' = funded \cup {req[r].toWallet}
    /\ funded' # funded => \E q \in Reqs : req[q].pc = "faucetSend" /\ req'[q].tx # 0
    \* a request with valid fields for an address not marked funded is accepted
    /\ req[r].pc = "idle" /\ req'[r].kind = "faucet" /\ req'[r].resp = 429
       => \E w \in funded : TRUE
    /\ req[r].pc = "idle" /\ req'[r].pc = "faucetCreate"
       => req'[r].toWallet \notin funded

C34_FailedFaucetKeepsEligible == []C34_State /\ [][C34_Step]_vars

\* A faucet request failed at the contract send, nothing is marked funded,
\* and the next faucet request passed the eligibility check and is at its
\* own contract send.
C34_Witness ==
  \E r1, r2 \in Reqs :
    /\ r1 < r2
    /\ req[r1].kind = "faucet" /\ req[r1].resp = 500 /\ req[r1].sends = 1
    /\ funded = {} /\ ledger = <<>>
    /\ req[r2].kind = "faucet" /\ req[r2].pc = "faucetSend"
    /\ isWalletEligibleForBonus(req[r2].toWallet)

\* ------------------------------------------------------------------- C33
\* C33: faucet eligibility belongs to the chain address, not to its spelling:
\* once an address is marked funded, an eligibility query for the same
\* address in any letter case answers not eligible, and a faucet request for
\* it in any letter case is rejected.
C33_State ==
  \A w \in funded :
    \A v \in Spellings(w) :
      BonusEligible(v) = [code |-> 200, eligible |-> FALSE]

C33_Step ==
  \A r \in Reqs :
    req[r].pc = "idle" /\ req'[r].pc = "faucetCreate"
    => \A v \in Spellings(req'[r].toWallet) : v \notin funded

C33_EligibilityByAddress == []C33_State /\ [][C33_Step]_vars

\* ------------------------------------------------------------------- C32
\* C32: a failure to read or parse the key-store file during POST
\* /wallet/create removes no stored signing-key record: every record that
\* was in the persisted store under another owner id before the request is
\* in it, unchanged, after the request.
C32_ReadFailureKeepsRecords ==
  [][\A c \in WReqs :
       wreq[c].pc = "idle" /\ wreq'[c].pc = "mapping"
       => \A u \in StoreKeys \ {wreq'[c].userId} :
            walletStore[u] # NoWallet => walletStore'[u] = walletStore[u]]_vars

\* ------------------------------------------------------------------- C35
\* C35: after the server starts listening, startup eventually gets from
\* starting Ganache to deployAndRegisterContracts: the promise startGanache
\* returned for the freshly spawned child is eventually settled, so
\* PaymentManager is deployed and the payment routes are registered (or the
\* deployment is reported failed).
C35_StartupReachesDeploy ==
  (server.boot = "awaitStart") ~> (server.promise = "resolved" /\ server.boot \in {"deployed", "failed"})

C37_State ==
  LET c == registry.call
  IN c.n > 0
     => /\ c.wallet = ZeroAddress \/ c.emailHash = ZeroHash => c.reverted
        /\ c.currentWallet # ZeroAddress /\ c.currentWallet # c.sender => c.reverted
        /\ ~c.reverted => getWalletByEmail(c.emailHash) = c.wallet

C37_Step ==
  /\ \A e \in Hashes :
       /\ registry.emailToWallet[e] # ZeroAddress
       /\ registry'.emailToWallet[e] # registry.emailToWallet[e]
       => /\ registry'.call.sender = registry.emailToWallet[e]
          /\ registry'.call.emailHash = e
          /\ ~registry'.call.reverted
  /\ registry'.call.n # registry.call.n /\ registry'.call.reverted
     => /\ registry'.emailToWallet = registry.emailToWallet
        /\ registry'.walletToEmail = registry.walletToEmail
        /\ registry'.registrationTimestamps = registry.registrationTimestamps

C37_OnlyOwnerUpdates == []C37_State /\ [][C37_Step]_vars

\* A registered email was moved to another wallet by the wallet it was
\* mapped to, in a later block; its registration timestamp is the old one.
C37_Witness ==
  LET c == registry.call
  IN /\ c.n > 1 /\ ~c.reverted
     /\ c.currentWallet = c.sender /\ c.wallet # c.sender
     /\ registry.emailToWallet[c.emailHash] = c.wallet
     /\ registry.registrationTimestamps[c.emailHash] < registry.timestamp

\* ------------------------------------------------------------------- C38
\* C38: after any sequence of registerEmail calls the forward and the
\* reverse mapping agree: for every email hash e with getWalletByEmail(e) = w
\* and w nonzero, getEmailByWallet(w) = e, so no wallet is the target of two
\* registered emails.
C38_MappingsAgree ==
  \A e \in Hashes :
    getWalletByEmail(e) # ZeroAddress
    => getEmailByWallet(getWalletByEmail(e)) = e

\* ------------------------------------------------------------------- C39
RECURSIVE SumOver(_, _)
SumOver(amounts, I) ==
  IF I = {} THEN 0
  ELSE LET i == CHOOSE j \in I : TRUE
       IN amounts[i] + SumOver(amounts, I \ {i})
\* What the entries of a batch name for account a, and for all accounts.
SentTo(c, a) == SumOver(c.amounts, {i \in DOMAIN c.toWallets : c.toWallets[i] = a})
Total(c) == SumOver(c.amounts, DOMAIN c.amounts)
BatchDone ==
  manager.call.fn = "batchPaymentToWallets" /\ manager.call.pc = "ok"

C40_GuardHolds ==
  /\ AtRest => manager.status = NOT_ENTERED
  /\ ~AtRest => manager.status = ENTERED
  /\ manager.call.nested \in {"none", "reverted"}
  /\ manager.call.nested = "reverted"
     => manager.call.fn \in GuardedFunctions /\ manager.call.nestedFn \in GuardedFunctions

\* The second transaction reverted after its recipient's call back into
\* withdrawAll was turned away, and the guard is reset.
C40_Witness ==
  /\ manager.txs = 2
  /\ manager.call.pc = "reverted"
  /\ manager.call.nested = "reverted" /\ manager.call.nestedFn = "withdrawAll"
  /\ manager.status = NOT_ENTERED

====
